---- MODULE Spec2Model ----
(***************************************************************************)
(* A model of madler/brotli: the yeast brotli decoder (src/yeast.c) and    *)
(* the .br framing tools brand, braid and broad.                           *)
(*                                                                         *)
(* The decoder is modelled as the step machine of yeast(): one action per  *)
(* step of yeast(), metablock() and prefix().  The compressed input is     *)
(* drawn lazily: every call of bits() takes its value from a small set of  *)
(* values for that field, and consumes input exactly as bits() does (the   *)
(* byte counter s->len and the bit counter s->left).  The input family     *)
(* fam, chosen in the initial state, selects which sets are used, so that  *)
(* each family explores one part of the format in depth.                   *)
(***************************************************************************)
EXTENDS Integers, Sequences, FiniteSets, TLC

VARIABLES
    pc,     \* control position in yeast() / metablock() / prefix()
    fam,    \* input family (which value sets the input fields are drawn from)
    arg,    \* the caller's arguments: cmp, *len, *got, *dest, expected data
    s,      \* the state_t the decoder works on (s.null: s == NULL)
    mb,     \* locals of metablock()
    px,     \* locals of prefix()
    heap,   \* allocator: live prefix-code arrays, number of alloc() calls
    err,    \* the ball thrown (err.code), 0 when nothing was thrown
    ret,    \* the caller's *dest, *got, *len and the value yeast() returned
    gh,     \* history (ghost) variables used to state the claims
    io,     \* brand, braid and broad: the files, braid's locals, its output
    cmap      \* locals of context_map()

vars == <<pc, fam, arg, s, mb, px, heap, err, ret, gh, io, cmap>>

(***************************************************************************)
(* Bounds of the model.                                                    *)
(***************************************************************************)
MaxHdrIn == 5
MaxCmdIn == 24
MaxRingLen == 12
MaxSpinLen == 8

(***************************************************************************)
(* Program constants.                                                      *)
(***************************************************************************)
MAXBITS == 15
MAXIACS == 704
MAXLITS == 256
MAXSYMS == 704
BLOCK_LENGTH_CODES == 26

Pow2(n) == 2 ^ n
Min(a, b) == IF a < b THEN a ELSE b

(***************************************************************************)
(* bits(): the effect of one call bits(s, need) on s->len and s->left.     *)
(* ok = FALSE is throw(2, "premature end of input").                       *)
(***************************************************************************)
bits(need, sl, lf) ==
    LET nb == IF lf >= need THEN 0 ELSE (need - lf + 7) \div 8
    IN  IF nb > sl
        THEN [ok |-> FALSE, slen |-> 0, left |-> lf + 8 * sl]
        ELSE [ok |-> TRUE, slen |-> sl - nb, left |-> lf + 8 * nb - need]

\* A sequence of bits() calls, stopping at the first that throws.
RECURSIVE bitsSeq(_, _, _)
bitsSeq(needs, sl, lf) ==
    IF needs = << >>
    THEN [ok |-> TRUE, slen |-> sl, left |-> lf]
    ELSE LET r == bits(Head(needs), sl, lf)
         IN  IF r.ok THEN bitsSeq(Tail(needs), r.slen, r.left) ELSE r

\* All sequences of length n over the set S.
RECURSIVE SeqsOf(_, _)
SeqsOf(S, n) ==
    IF n = 0 THEN {<< >>}
    ELSE {<<x>> \o q : x \in S, q \in SeqsOf(S, n - 1)}

SubSeqFrom(q, i, n) == [k \in 1..n |-> q[i + k - 1]]

\* The index (from 0) of the first place where two sequences of one length
\* differ (memcmp() locates it; the callers only learn that there is one).
FirstDiff(a, b) ==
    CHOOSE k \in 0..Len(a) - 1 :
        a[k + 1] # b[k + 1] /\ \A j \in 0..k - 1 : a[j + 1] = b[j + 1]

(***************************************************************************)
(* Prefix code tables (prefix_t): count[0..MAXBITS] and symbol[0..n-1].    *)
(* A list of code lengths length[0..n-1] is kept sparse: the sequence of   *)
(* <<symbol, length>> for the symbols with a non-zero length, in symbol    *)
(* order, beside n.                                                        *)
(***************************************************************************)
ZeroCount == [i \in 0..MAXBITS |-> 0]

\* The fixed code for the code length code lengths (prefix(), "prefix_t code").
FixedCode ==
    [count |-> [i \in 0..MAXBITS |->
                   IF i = 2 THEN 3 ELSE IF i = 3 THEN 1 ELSE IF i = 4 THEN 2 ELSE 0],
     symbol |-> <<0, 3, 4, 2, 1, 5>>]

\* decode(): the symbols a table can yield, each with the number of bits it
\* consumes.  E is the set of values of code - first that the bits read so
\* far can give.  ok = FALSE is the failure of assert(len <= MAXBITS), after
\* MAXBITS bits that match no code.
RECURSIVE decodeWalk(_, _, _, _)
decodeWalk(p, len, index, E) ==
    LET c == p.count[len]
        hit == {[ok |-> TRUE, sym |-> p.symbol[index + e + 1], n |-> len] :
                    e \in {x \in E : x < c}}
        rest == {x \in E : x >= c}
    IN  IF rest = {} THEN hit
        ELSE IF len = MAXBITS
        THEN hit \cup {[ok |-> FALSE, sym |-> 0, n |-> MAXBITS]}
        ELSE hit \cup decodeWalk(p, len + 1, index + c,
                                 {2 * (x - c) + b : x \in rest, b \in {0, 1}})

decode(p) == decodeWalk(p, 0, 0, {0})

\* construct(): the table for the code lengths (the caller checks n).
LensOfLen(lens, l) == SelectSeq(lens, LAMBDA e : e[2] = l)

RECURSIVE symbolsFrom(_, _)
symbolsFrom(lens, l) ==
    IF l > MAXBITS THEN << >>
    ELSE [k \in 1..Len(LensOfLen(lens, l)) |-> LensOfLen(lens, l)[k][1]]
         \o symbolsFrom(lens, l + 1)

construct(lens) ==
    [count |-> [l \in 0..MAXBITS |-> IF l = 0 THEN 0 ELSE Len(LensOfLen(lens, l))],
     symbol |-> symbolsFrom(lens, 1)]

\* ORDER(list, i, j), with i and j counted from 0 as in the source.
ORDER(list, i, j) ==
    IF list[i + 1] > list[j + 1]
    THEN [list EXCEPT ![i + 1] = list[j + 1], ![j + 1] = list[i + 1]]
    ELSE list

\* simple(): the table for a simple prefix code of the given type (1..5).
simple(syms, type) ==
    LET sy == SubSeq(syms, 1, IF type > 4 THEN 4 ELSE type)
    IN  CASE type = 1 -> [count |-> [ZeroCount EXCEPT ![0] = 1], symbol |-> sy]
          [] type = 2 -> [count |-> [ZeroCount EXCEPT ![1] = 2],
                          symbol |-> ORDER(sy, 0, 1)]
          [] type = 3 -> [count |-> [ZeroCount EXCEPT ![1] = 1, ![2] = 2],
                          symbol |-> ORDER(sy, 1, 2)]
          [] type = 4 -> [count |-> [ZeroCount EXCEPT ![2] = 4],
                          symbol |-> ORDER(ORDER(ORDER(ORDER(ORDER(sy, 0, 1),
                                        2, 3), 0, 2), 1, 3), 1, 2)]
          [] type = 5 -> [count |-> [ZeroCount EXCEPT ![1] = 1, ![2] = 1, ![3] = 2],
                          symbol |-> ORDER(sy, 2, 3)]

\* The number of bits needed to represent num - 1 (abits in prefix()).
RECURSIVE abitsFrom(_, _, _)
abitsFrom(n, abits, num) ==
    IF n < num THEN abitsFrom(2 * n, abits + 1, num) ELSE abits
AlphabetBits(num) == abitsFrom(2, 1, num)

\* The order of the code length code lengths.
order == <<1, 2, 3, 4, 0, 5, 17, 6, 16, 7, 8, 9, 10, 11, 12, 13, 14, 15>>
CODE_LENGTH_CODES == 18

\* Insert a <<symbol, length>> pair in symbol order.
RECURSIVE InsertLen(_, _)
InsertLen(lens, e) ==
    IF lens = << >> THEN <<e>>
    ELSE IF Head(lens)[1] > e[1] THEN <<e>> \o lens
    ELSE <<Head(lens)>> \o InsertLen(Tail(lens), e)

(***************************************************************************)
(* The .br framing format (src/br.h) and the byte-level helpers of brand,  *)
(* braid and broad.  A file is a sequence of bytes; file offsets count     *)
(* from 0.                                                                 *)
(***************************************************************************)
BR_SIG == <<206, 178, 207, 129>>
BR_CONTENT_CHECK == 7
BR_CONTENT_LEN == 8
BR_CONTENT_OFF == 16
BR_CONTENT_TRAIL == 32
BR_CONTENT_EXTRA_MASK == 64
BR_CHECK_XXH32_4 == 2
BR_CHECK_ID == 7
BR_CHECKID_SHA256 == 0
BR_EXTRA_MOD == 1
BR_EXTRA_NAME == 2
BR_EXTRA_EXTRA == 4
BR_EXTRA_RESERVED == 24
BR_EXTRA_CHECK == 32
BR_EXTRA_COMPRESSION_MASK == 64
BR_COMPRESSION_METHOD == 7
BR_COMPRESSION_RESERVED == 64

\* Bitwise and, or and exclusive or of two numbers below 2^8.
Bit(n, k) == (n \div Pow2(k)) % 2
And(a, b) == LET f[k \in 0..8] ==
                    IF k = 8 THEN 0 ELSE Bit(a, k) * Bit(b, k) * Pow2(k) + f[k + 1]
             IN  f[0]
Or(a, b) == a + b - And(a, b)
Xor(a, b) == a + b - 2 * And(a, b)

\* parity(): (0x34cb00 >> ((n ^ (n >> 4)) & 0xf)) & 0x80.
parity(n) ==
    LET x == Xor(n % 16, (n \div 16) % 16)
    IN  128 * Bit(3459840 \div Pow2(x), 7)

\* var() of brand and putvar() of braid: a forward variable-length integer.
RECURSIVE var(_)
var(num) == IF num > 127 THEN <<num % 128>> \o var(num \div 128)
            ELSE <<128 + num>>

\* A variant of bvar() that writes a number below 128 as one byte.
bvar_one_byte(num) == var(num)

\* bvar(): a bidirectional variable-length integer.
RECURSIVE bvarRest(_)
bvarRest(num) == IF num > 127 THEN <<num % 128>> \o bvarRest(num \div 128)
                 ELSE <<128 + num>>
bvar(num) == <<128 + (num % 128)>> \o bvarRest(num \div 128)

\* little(): k bytes of num in little-endian order.
little(num, k) == [i \in 1..k |-> (num \div Pow2(8 * (i - 1))) % 256]

\* getvar(): read a forward variable-length integer of file f at offset at.
\* ok = FALSE: the end of the file was reached (get1() throws).
RECURSIVE getvarFrom(_, _, _, _)
getvarFrom(f, at, val, shift) ==
    IF at >= Len(f) THEN [ok |-> FALSE, val |-> val, next |-> at]
    ELSE LET ch == f[at + 1]
             v == val + (ch % 128) * Pow2(shift)
         IN  IF ch >= 128 THEN [ok |-> TRUE, val |-> v, next |-> at + 1]
             ELSE getvarFrom(f, at + 1, v, shift + 7)
getvar(f, at) == getvarFrom(f, at, 0, 0)

\* getbvar(): read a bidirectional integer forwards.  code 3: the first byte
\* has no high bit; code 1: end of file (2 in broad).
getbvar(f, at) ==
    IF at >= Len(f) THEN [ok |-> FALSE, code |-> 1, val |-> 0, next |-> at]
    ELSE IF f[at + 1] < 128 THEN [ok |-> FALSE, code |-> 3, val |-> 0, next |-> at + 1]
    ELSE LET r == getvarFrom(f, at + 1, 0, 0)
         IN  [ok |-> r.ok, code |-> 1, val |-> (f[at + 1] % 128) + 128 * r.val,
              next |-> r.next]

\* getrbvar(): read a bidirectional integer backwards; at is the file
\* position, and the byte read first is the one before it.
RECURSIVE getrbvarFrom(_, _, _)
getrbvarFrom(f, at, val) ==
    IF at = 0 THEN [ok |-> FALSE, code |-> 1, val |-> val, next |-> at]
    ELSE LET ch == f[at]
             v == val * 128 + (ch % 128)
         IN  IF ch >= 128 THEN [ok |-> TRUE, code |-> 0, val |-> v, next |-> at - 1]
             ELSE getrbvarFrom(f, at - 1, v)
getrbvar(f, at) ==
    IF at = 0 THEN [ok |-> FALSE, code |-> 1, val |-> 0, next |-> at]
    ELSE IF f[at] < 128 THEN [ok |-> FALSE, code |-> 3, val |-> 0, next |-> at - 1]
    ELSE getrbvarFrom(f, at - 1, f[at] % 128)

\* The check value functions (XXH32, XXH64, CRC-32C, SHA-256) are library
\* code outside the model: the check value of kind kind (0 XXH32, 1 XXH64,
\* 2 CRC-32C, 3 SHA-256) over data, as its first n bytes in little-endian
\* order, is a fixed function of kind, data and the byte's place.
RECURSIVE SumSeq(_)
SumSeq(q) == IF q = << >> THEN 0 ELSE Head(q) + SumSeq(Tail(q))
CheckValue(kind, data, n) ==
    [i \in 1..n |-> (37 * kind + 11 * i + Len(data) + 3 * SumSeq(data) + 5) % 256]
\* The check kind of the check type in a content mask.
KindOf(m) == LET c == And(m, BR_CONTENT_CHECK)
             IN  IF c < 3 THEN 0 ELSE IF c = 3 THEN 1 ELSE IF c = 7 THEN 3 ELSE 2


\* The byte getc() returns at offset at of file f (the files the model reads
\* with getc() were scanned first, so the offset is inside the file).
getc(f, at) == IF at < Len(f) THEN f[at + 1] ELSE 255

\* The bytes of f from offset at up to offset to (to excluded).
Bytes(f, at, to) == [i \in 1..(to - at) |-> f[at + i]]

(***************************************************************************)
(* brand: wrap() after its options are interpreted.  o gives check_type    *)
(* (0 xxh32, 1 xxh64, 2 crc32, 3 sha256), check_len, tail, mod, file, the  *)
(* time, the name, the brotli stream and its uncompressed data.  The       *)
(* result is the file written and the mask bytes in it, with the offsets   *)
(* of the check value (check_at) and of the trailer (tail_at).             *)
(***************************************************************************)
wrap(o) ==
    LET check == IF o.check_type = 1 THEN 3
                 ELSE IF o.check_type = 0
                 THEN (IF o.check_len = 4 THEN 2 ELSE IF o.check_len = 2 THEN 1 ELSE 0)
                 ELSE IF o.check_type = 2
                 THEN (IF o.check_len = 4 THEN 6 ELSE IF o.check_len = 2 THEN 5 ELSE 4)
                 ELSE 7
        \* "if (mod || name)": main() always passes a name
        mask == Or(check, BR_CONTENT_EXTRA_MASK)
        extra == Or(IF o.mod = 1 THEN BR_EXTRA_MOD ELSE 0,
                    IF o.file = 1 THEN BR_EXTRA_NAME ELSE 0)
        cm == Xor(mask, parity(mask))
        em == Xor(extra, parity(extra))
        head == <<cm>>
                \o (IF And(mask, 7) = 7 THEN <<0>> ELSE << >>)
                \o <<em>>
                \o (IF o.mod = 1 THEN var((o.time + 35) * 2) ELSE << >>)
                \o (IF o.file = 1 THEN var(Len(o.name)) \o o.name ELSE << >>)
        writ == Len(head) + Len(o.brotli) + o.check_len
        t0 == Or(o.tail, Or(7, BR_CONTENT_TRAIL))
        tail == Xor(t0, parity(t0))
        \* SHA256_DIGEST_LENGTH bytes, or little(check, check_len, out)
        value == IF o.check_type = 3 THEN CheckValue(3, o.un, 32)
                 ELSE CheckValue(o.check_type, o.un, o.check_len)
    IN  [check_at |-> 4 + Len(head) + Len(o.brotli),
         tail_at |-> 4 + Len(head) + Len(o.brotli) + Len(value),
         file |-> BR_SIG \o head \o o.brotli
                    \o value
                    \o <<tail>>
                    \o (IF And(tail, BR_CONTENT_OFF) # 0 THEN bvar(writ) ELSE << >>)
                    \o (IF And(tail, BR_CONTENT_LEN) # 0 THEN bvar(Len(o.un)) ELSE << >>)
                    \o (IF And(tail, BR_CONTENT_OFF + BR_CONTENT_LEN) # 0
                        THEN <<tail>> ELSE << >>),
         masks |-> {cm, em, tail}]

(***************************************************************************)
(* braid: scan().  The result is the stack of offsets (top first) and the  *)
(* position the file is left at, or the code thrown; set tells whether     *)
(* "*pos = NULL" was reached; code 0 with ok = FALSE is a walk that never  *)
(* ends.                                                                   *)
(***************************************************************************)
\* rget1() over the zero padding: the offset of the last non-zero byte.
RECURSIVE LastNonZero(_, _)
LastNonZero(f, at) ==
    IF at = 0 THEN -1
    ELSE IF f[at] # 0 THEN at - 1 ELSE LastNonZero(f, at - 1)

Thrown(code, set, pos) == [ok |-> FALSE, code |-> code, set |-> set, pos |-> pos,
                           at |-> 0]

\* The walk through the string of distances, from the header at offset at.
RECURSIVE scanChain(_, _, _, _)
scanChain(f, at, pos, p) ==
    IF at > 4
    THEN IF at >= Len(f) THEN Thrown(1, TRUE, pos)
         ELSE LET mask == f[at + 1]
                  r == getvar(f, at + 1)
              IN  IF parity(mask) # 0 \/ And(mask, BR_CONTENT_TRAIL) # 0
                  THEN Thrown(3, TRUE, pos)
                  ELSE IF And(mask, BR_CONTENT_OFF) = 0 THEN Thrown(4, TRUE, pos)
                  ELSE IF ~r.ok THEN Thrown(1, TRUE, pos)
                  ELSE IF r.val = 0 THEN Thrown(0, TRUE, pos)
                  ELSE scanChain(f, at - r.val, <<at - r.val>> \o pos, r.next)
    ELSE IF at # 4 THEN Thrown(3, TRUE, pos)
    ELSE [ok |-> TRUE, code |-> 0, set |-> TRUE, pos |-> pos, at |-> p]

scan(f) ==
    IF Len(f) < 4 \/ SubSeq(f, 1, 4) # BR_SIG THEN Thrown(2, FALSE, << >>)
    ELSE LET m == LastNonZero(f, Len(f))
             trail == f[m + 1]
             p1 == IF And(trail, BR_CONTENT_CHECK) # 7
                   THEN (IF m - Pow2(And(trail, 3)) < 0 THEN m
                         ELSE m - Pow2(And(trail, 3)))
                   ELSE m
             r1 == IF And(trail, BR_CONTENT_LEN) # 0 THEN getrbvar(f, p1)
                   ELSE [ok |-> TRUE, code |-> 0, val |-> 0, next |-> p1]
             r2 == IF And(trail, BR_CONTENT_OFF) # 0 THEN getrbvar(f, r1.next)
                   ELSE [ok |-> TRUE, code |-> 0, val |-> 0, next |-> r1.next]
             dist == r2.val
             lead == trail # BR_CONTENT_TRAIL + 7
             at == IF lead THEN r2.next - 1 ELSE r2.next
         IN  IF m < 0 THEN Thrown(1, FALSE, << >>)
             ELSE IF parity(trail) # 0 \/ And(trail, BR_CONTENT_TRAIL) = 0
                     \/ And(trail, BR_CONTENT_EXTRA_MASK) # 0
             THEN Thrown(3, FALSE, << >>)
             ELSE IF ~r1.ok THEN Thrown(r1.code, FALSE, << >>)
             ELSE IF ~r2.ok THEN Thrown(r2.code, FALSE, << >>)
             ELSE IF lead /\ r2.next = 0 THEN Thrown(1, FALSE, << >>)
             ELSE IF lead /\ f[r2.next] # trail THEN Thrown(3, FALSE, << >>)
             ELSE IF at > 4 /\ And(trail, BR_CONTENT_OFF) = 0
             THEN Thrown(4, FALSE, << >>)
             ELSE IF dist # 0
             THEN scanChain(f, at - dist, <<at - dist, at>>, at)
             ELSE scanChain(f, at, <<at>>, at)

(***************************************************************************)
(* braid: copy() of one segment of file f.  st gives pos (the stack, top   *)
(* first), out, off, last, check (the check values fed to the check of     *)
(* checks so far) and masks (the mask bytes written so far).               *)
(***************************************************************************)
\* A variant of distance_back() that gives the offset from the start of the
\* output.
distance_back_whole(here, last) == here

\* "here - *last" of copy() and "off - last" of main(): the distance from the
\* header or trailer written at here back to the header written at last.
distance_back(here, last) == here - last

copy_seg(f, st) ==
    LET p0 == Head(st.pos)
        pos1 == Tail(st.pos)
        mask0 == getc(f, p0)
        a1 == IF And(mask0, BR_CONTENT_OFF) # 0 THEN getvar(f, p0 + 1).next
              ELSE p0 + 1
        mask == IF st.last # 0
                THEN Xor(Or(mask0, BR_CONTENT_OFF),
                         parity(Or(mask0, BR_CONTENT_OFF)))
                ELSE mask0
        here == st.off
        h1 == <<mask>> \o (IF st.last # 0 THEN var(distance_back(here, st.last))
                            ELSE << >>)
        isid == And(mask, BR_CONTENT_CHECK) = 7
        h2 == h1 \o (IF isid THEN <<getc(f, a1)>> ELSE << >>)
        a2 == IF isid THEN a1 + 1 ELSE a1
        hasx == And(mask, BR_CONTENT_EXTRA_MASK) # 0
        extra == getc(f, a2)
        head == And(extra, BR_EXTRA_CHECK) # 0
        \* "strip &= ~(BR_EXTRA_MOD | BR_EXTRA_NAME)", written as it is
        strip == IF here # 4 THEN extra - And(extra, BR_EXTRA_MOD + BR_EXTRA_NAME)
                 ELSE extra
        rm == IF And(extra, BR_EXTRA_MOD) # 0 THEN getvar(f, a2 + 1)
              ELSE [ok |-> TRUE, val |-> 0, next |-> a2 + 1]
        h3 == h2 \o <<strip>>
                 \o (IF And(extra, BR_EXTRA_MOD) # 0 /\ And(strip, BR_EXTRA_MOD) # 0
                     THEN var(rm.val) ELSE << >>)
        rn == IF And(extra, BR_EXTRA_NAME) # 0 THEN getvar(f, rm.next)
              ELSE [ok |-> TRUE, val |-> 0, next |-> rm.next]
        a4 == rn.next + rn.val
        h4 == h3 \o (IF And(extra, BR_EXTRA_NAME) # 0 /\ And(strip, BR_EXTRA_NAME) # 0
                     THEN var(rn.val) \o Bytes(f, rn.next, a4) ELSE << >>)
        rx == IF And(extra, BR_EXTRA_EXTRA) # 0 THEN getvar(f, a4)
              ELSE [ok |-> TRUE, val |-> 0, next |-> a4]
        a5 == rx.next + rx.val
        h5 == h4 \o (IF And(extra, BR_EXTRA_EXTRA) # 0
                     THEN var(rx.val) \o Bytes(f, rx.next, a5) ELSE << >>)
        hasm == And(extra, BR_EXTRA_COMPRESSION_MASK) # 0
        h6 == h5 \o (IF hasm THEN <<getc(f, a5)>> ELSE << >>)
        a6 == IF hasm THEN a5 + 1 ELSE a5
        h7 == h6 \o (IF head THEN CheckValue(0, h6, 2) ELSE << >>)
        a7 == IF head THEN a6 + 2 ELSE a6
        hdr == IF hasx THEN h7 ELSE h2
        at == IF hasx THEN a7 ELSE a2
        n == IF isid THEN 32 ELSE Pow2(And(mask, 3))
        to == Head(pos1)
        body == Bytes(f, at, to - n)
        cv == Bytes(f, to - n, to)
    IN  [st EXCEPT !.pos = pos1,
                   !.out = @ \o hdr \o body \o cv,
                   !.off = @ + Len(hdr) + (to - at),
                   !.last = here,
                   !.check = @ \o cv,
                   !.masks = @ \cup {mask} \cup (IF hasx THEN {strip} ELSE {}),
                   !.at = to]

(***************************************************************************)
(* yeast() as broad calls it (cmp = 0, allocations succeeding), on the     *)
(* streams the framing model carries: WBITS 16 and meta-blocks that are    *)
(* uncompressed or last and empty.  The result is the return code, the     *)
(* bytes used and the data; code -1 marks a stream outside these.          *)
(***************************************************************************)
\* bits(): need bits of buf from bit offset bp, least significant first.
RECURSIVE BitsAt(_, _, _)
BitsAt(buf, bp, need) ==
    IF need = 0 THEN 0
    ELSE Bit(buf[(bp \div 8) + 1], bp % 8) + 2 * BitsAt(buf, bp + 1, need - 1)

Rd(buf, bp, need) ==
    IF bp + need > 8 * Len(buf) THEN [ok |-> FALSE, val |-> 0, bp |-> bp]
    ELSE [ok |-> TRUE, val |-> BitsAt(buf, bp, need), bp |-> bp + need]

Used(bp) == (bp + 7) \div 8

RECURSIVE yeastMeta(_, _, _)
yeastMeta(buf, bp, out) ==
    LET End(code, b) == [ret |-> code,
                         used |-> IF code = 2 THEN Len(buf) ELSE Used(b),
                         data |-> out]
        r1 == Rd(buf, bp, 1)
        last == r1.val
        r2 == Rd(buf, r1.bp, 1)
        b2 == IF last = 1 THEN r2.bp ELSE r1.bp
        r3 == Rd(buf, b2, 2)
        r4 == Rd(buf, r3.bp, 16)
        mlen == 1 + r4.val
        r5 == Rd(buf, r4.bp, 1)
        start == Used(r5.bp)
        pad == BitsAt(buf, r5.bp, 8 * start - r5.bp)
    IN  IF ~r1.ok THEN End(2, bp)
        ELSE IF last = 1 /\ ~r2.ok THEN End(2, bp)
        ELSE IF last = 1 /\ r2.val = 1 THEN End(0, r2.bp)
        ELSE IF ~r3.ok THEN End(2, bp)
        ELSE IF r3.val # 0 THEN End(-1, bp)
        ELSE IF ~r4.ok THEN End(2, bp)
        ELSE IF last = 1 THEN End(-1, bp)
        ELSE IF ~r5.ok THEN End(2, bp)
        ELSE IF r5.val = 0 THEN End(-1, bp)
        ELSE IF pad # 0 THEN End(3, r5.bp)
        ELSE IF mlen > Len(buf) - start THEN End(2, bp)
        ELSE yeastMeta(buf, 8 * (start + mlen),
                       out \o Bytes(buf, start, start + mlen))

yeastBuf(buf) ==
    LET r == Rd(buf, 0, 1)
    IN  IF ~r.ok THEN [ret |-> 2, used |-> Len(buf), data |-> << >>]
        ELSE IF r.val = 1 THEN [ret |-> -1, used |-> 0, data |-> << >>]
        ELSE yeastMeta(buf, r.bp, << >>)

(***************************************************************************)
(* broad(): the code returned for file f, with the brotli streams          *)
(* decompressed on the way (segs).  Code -2: yeast() is handed seq.len as  *)
(* the length of what follows seq.next, and went past the end of the       *)
(* buffer.                                                                 *)
(***************************************************************************)
Broad(code, segs) == [code |-> code, segs |-> segs]

\* The trailer: mask is at offset curr.
broadTrailer(f, mask, last, curr, total, dc, segs) ==
    LET a0 == curr + 1
        ro == IF And(mask, BR_CONTENT_OFF) # 0 THEN getbvar(f, a0)
              ELSE [ok |-> TRUE, code |-> 0, val |-> curr - last, next |-> a0]
        rl == IF And(mask, BR_CONTENT_LEN) # 0 THEN getbvar(f, ro.next)
              ELSE [ok |-> TRUE, code |-> 0, val |-> total, next |-> ro.next]
        hasc == And(mask, BR_CONTENT_CHECK) # 7
        n == Pow2(And(mask, 3))
        a3 == IF hasc THEN rl.next + n ELSE rl.next
        again == hasc \/ And(mask, BR_CONTENT_LEN + BR_CONTENT_OFF) # 0
    IN  IF And(mask, BR_CONTENT_EXTRA_MASK) # 0 THEN Broad(3, segs)
        ELSE IF ~ro.ok THEN Broad(IF ro.code = 3 THEN 3 ELSE 2, segs)
        ELSE IF curr - last # ro.val THEN Broad(3, segs)
        ELSE IF ~rl.ok THEN Broad(IF rl.code = 3 THEN 3 ELSE 2, segs)
        ELSE IF total # rl.val THEN Broad(5, segs)
        ELSE IF hasc /\ a3 > Len(f) THEN Broad(2, segs)
        ELSE IF hasc /\ CheckValue(KindOf(mask), dc, n) # Bytes(f, rl.next, a3)
        THEN Broad(5, segs)
        ELSE IF again /\ a3 >= Len(f) THEN Broad(2, segs)
        ELSE IF again /\ f[a3 + 1] # mask THEN Broad(3, segs)
        ELSE Broad(0, segs)

\* The fields an extra mask announces, from offset at: code 0 and the
\* offset after them (check: the offset of the header check), or the code
\* thrown.  curr is the offset of the header.
Fields(code, check, next) == [code |-> code, check |-> check, next |-> next]
broadExtra(f, curr, extra, at) ==
    LET rm == IF And(extra, BR_EXTRA_MOD) # 0 THEN getvar(f, at)
              ELSE [ok |-> TRUE, val |-> 0, next |-> at]
        rn == IF And(extra, BR_EXTRA_NAME) # 0 THEN getvar(f, rm.next)
              ELSE [ok |-> TRUE, val |-> 0, next |-> rm.next]
        a4 == rn.next + rn.val
        rx == IF And(extra, BR_EXTRA_EXTRA) # 0 THEN getvar(f, a4)
              ELSE [ok |-> TRUE, val |-> 0, next |-> a4]
        a5 == rx.next + rx.val
    IN  IF ~rm.ok \/ ~rn.ok \/ a4 > Len(f) \/ ~rx.ok \/ a5 > Len(f)
        THEN Fields(2, 0, 0)
        ELSE Fields(0, 0, a5)

broadMethod(f, curr, extra, at) ==
    LET hasm == And(extra, BR_EXTRA_COMPRESSION_MASK) # 0
        a6 == IF hasm THEN at + 1 ELSE at
        hasc == And(extra, BR_EXTRA_CHECK) # 0
        a7 == IF hasc THEN a6 + 2 ELSE a6
    IN  IF hasm /\ at >= Len(f) THEN Fields(2, 0, 0)
        ELSE IF hasm /\ (parity(f[at + 1]) # 0
                         \/ And(f[at + 1], BR_COMPRESSION_METHOD
                                           + BR_COMPRESSION_RESERVED) # 0)
        THEN Fields(3, 0, 0)
        ELSE IF hasc /\ a7 > Len(f) THEN Fields(2, 0, 0)
        ELSE IF hasc /\ CheckValue(0, Bytes(f, curr, a6), 2) # Bytes(f, a6, a7)
        THEN Fields(3, 0, 0)
        ELSE Fields(0, a6, a7)

broadFields(f, curr, extra, e) ==
    IF e.code # 0 THEN e ELSE broadMethod(f, curr, extra, e.next)

\* The header at offset curr, after its content mask: code 0 and the offset
\* of the brotli stream, or the code thrown.
broadHeader(f, mask, last, curr) ==
    LET hasoff == And(mask, BR_CONTENT_OFF) # 0
        ro == IF hasoff THEN getvar(f, curr + 1)
              ELSE [ok |-> TRUE, val |-> curr - last, next |-> curr + 1]
        isid == And(mask, BR_CONTENT_CHECK) = BR_CHECK_ID
        a2 == IF isid THEN ro.next + 1 ELSE ro.next
        hasx == And(mask, BR_CONTENT_EXTRA_MASK) # 0
        extra == f[a2 + 1]
    IN  IF last = 0 /\ hasoff THEN Fields(3, 0, 0)
        ELSE IF ~ro.ok THEN Fields(2, 0, 0)
        ELSE IF curr - last # ro.val THEN Fields(3, 0, 0)
        ELSE IF isid /\ ro.next >= Len(f) THEN Fields(2, 0, 0)
        ELSE IF isid /\ f[ro.next + 1] # BR_CHECKID_SHA256 THEN Fields(3, 0, 0)
        ELSE IF ~hasx THEN Fields(0, 0, a2)
        ELSE IF a2 >= Len(f) THEN Fields(2, 0, 0)
        ELSE IF parity(extra) # 0 \/ And(extra, BR_EXTRA_RESERVED) # 0
        THEN Fields(3, 0, 0)
        ELSE broadFields(f, curr, extra, broadExtra(f, curr, extra, a2 + 1))

\* The brotli stream at offset at and what follows it in the segment: code
\* 0, the bytes of the stream, its data, the check value read and the
\* offset after it, or the code thrown.
broadCheck(f, mask, at, y) ==
    LET a8 == at + y.used
        rl == IF And(mask, BR_CONTENT_LEN) # 0 THEN getvar(f, a8)
              ELSE [ok |-> TRUE, val |-> Len(y.data), next |-> a8]
        n == IF And(mask, BR_CONTENT_CHECK) = 7 THEN 32 ELSE Pow2(And(mask, 3))
        a9 == rl.next + n
        R(code) == [code |-> code, seg |-> Bytes(f, at, a8), got |-> Len(y.data),
                    cv |-> Bytes(f, rl.next, a9), next |-> a9]
    IN  IF y.ret = 2 THEN R(-2)
        ELSE IF y.ret # 0 THEN R(4)
        ELSE IF ~rl.ok THEN R(2)
        ELSE IF Len(y.data) # rl.val THEN R(5)
        ELSE IF a9 > Len(f) THEN R(2)
        ELSE IF CheckValue(KindOf(mask), y.data, n) # Bytes(f, rl.next, a9)
        THEN R(5)
        ELSE R(0)

broadStream(f, mask, at) == broadCheck(f, mask, at, yeastBuf(Bytes(f, at, Len(f))))

RECURSIVE broadLoop(_, _, _, _, _, _)
\* The loop after the brotli stream was read (b).
broadNext(f, curr, total, dc, segs, b) ==
    IF b.code # 0 THEN Broad(b.code, segs)
    ELSE broadLoop(f, curr, b.next, total + b.got, dc \o b.cv, Append(segs, b.seg))

\* The loop after the header was read (h).
broadSegment(f, mask, curr, total, dc, segs, h) ==
    IF h.code # 0 THEN Broad(h.code, segs)
    ELSE broadNext(f, curr, total, dc, segs, broadStream(f, mask, h.next))

\* One turn of "for (;;)": last is the offset of the header before, curr
\* the offset of this one.
broadLoop(f, last, curr, total, dc, segs) ==
    IF curr >= Len(f) THEN Broad(2, segs)
    ELSE IF parity(f[curr + 1]) # 0 THEN Broad(3, segs)
    ELSE IF And(f[curr + 1], BR_CONTENT_TRAIL) # 0
    THEN broadTrailer(f, f[curr + 1], last, curr, total, dc, segs)
    ELSE broadSegment(f, f[curr + 1], curr, total, dc, segs,
                      broadHeader(f, f[curr + 1], last, curr))

broad(f) ==
    IF Len(f) < 4 THEN Broad(2, << >>)
    ELSE IF SubSeq(f, 1, 4) # BR_SIG THEN Broad(3, << >>)
    ELSE broadLoop(f, 0, 4, 0, << >>, << >>)

(***************************************************************************)
(* The input sets.  Each is the set of values the model lets a field of    *)
(* the compressed stream (or an argument of the call) take in family fam:  *)
(*   "hdr"   stream and meta-block headers, uncompressed and meta-data     *)
(*           blocks, short and truncated inputs, failing allocations;      *)
(*   "cmd"   compressed meta-blocks with simple prefix codes: commands,    *)
(*           literals, distances and copies, in both modes;                *)
(*   "cplx"  a complex prefix code for the insert-and-copy alphabet;       *)
(*   "ring"  one meta-block of commands with implicit and explicit         *)
(*           distances, among them the ring symbols 0..3;                  *)
(*   "spin"  one meta-block whose prefix codes have one symbol each, so    *)
(*           that no symbol takes a bit: commands without literals that    *)
(*           copy transformed dictionary words, some of them empty.        *)
(***************************************************************************)
Families == {"hdr", "cmd", "cplx", "ring", "spin"}

InByte == {65, 66}
InLen == IF fam = "hdr" THEN 0..MaxHdrIn ELSE {MaxCmdIn}
InCmp == IF fam \in {"cplx", "ring", "spin"} THEN {FALSE} ELSE {FALSE, TRUE}
InExpect == IF fam = "hdr" THEN UNION {SeqsOf(InByte, n) : n \in 0..2}
            ELSE IF fam \in {"ring", "spin"} THEN {<< >>}
            ELSE UNION {SeqsOf(InByte, n) : n \in {1, 3}}
InFail == IF fam = "hdr" THEN {0, 1, 2} ELSE {0}
InWb0 == IF fam = "hdr" THEN {0, 1} ELSE {0}
InWb1 == IF fam = "hdr" THEN {0, 1, 7} ELSE {0}
InWb2 == IF fam = "hdr" THEN {0, 1, 2, 7} ELSE {1, 2}
InIsLast == IF fam \in {"ring", "spin"} THEN {1} ELSE {0, 1}
InBit == {0, 1}
InEmpty == IF fam = "hdr" THEN {0, 1} ELSE {0}
InMNibbles == IF fam = "hdr" THEN {0, 1, 2, 3} ELSE {0}
InMSkipBytes == {0, 1, 2, 3}
InMSkipLen(n) == IF n = 1 THEN {0, 1}
                 ELSE IF n = 2 THEN {0, 255, 256}
                 ELSE {0, 65535, 65536}
InMLenLow == IF fam = "hdr" THEN {0, 1, 65535}
             ELSE IF fam = "cmd" THEN {0, 2, 4}
             ELSE IF fam = "ring" THEN {MaxRingLen - 1}
             ELSE IF fam = "spin" THEN {MaxSpinLen - 1} ELSE {0}
InMLenHigh(n) == IF n = 1 THEN {0, 1} ELSE {0, 15, 16}
InUncompressed == IF fam = "hdr" THEN {0, 1} ELSE {0}

\* Numbers of block types and of prefix codes (NBLTYPES*, NTREES*): the first
\* bit, the 3-bit code and the extra bits.
InNblBit == {0}
InNblCode == {0}
InNblExtra == {0}
InPostfix == {0}
InDirect == {0}
InMode == {0}

\* The number of prefix codes a context map refers to, and the length of the
\* map (that of the distance context map with one block type).
InTrees == {2, 3}
MapLen == 4

\* Prefix code descriptors: HSKIP, and the symbols of a simple code, for an
\* alphabet of num symbols.
InHskip(num) == IF fam = "cplx" /\ num = MAXIACS THEN {0} ELSE {1}
InSimple(num) == IF fam = "ring"
                 THEN (IF num = MAXLITS THEN {<<65>>}
                       ELSE IF num = MAXIACS THEN {<<136, 8>>}
                       ELSE {<<16, 17, 0, 1>>, <<16, 17, 2, 3>>})
                 ELSE IF fam = "spin"
                 THEN (IF num = MAXLITS THEN {<<65>>}
                       ELSE IF num = MAXIACS THEN {<<130>>, <<2>>}
                       ELSE {<<32>>})
                 ELSE IF num = MAXLITS THEN {<<65>>, <<66>>}
                 ELSE IF num = MAXIACS THEN {<<128, 136>>, <<138, 10>>}
                 ELSE {<<4, 8>>, <<32, 8>>}
\* The code length code length of a code length symbol.
InClcLen(sym) == IF sym = 1 THEN {1} ELSE IF sym = 17 THEN {0, 1} ELSE {0}
\* The extra bits of a repeat (16) and of a zero run (17) that follows a run
\* of zeros zeros.
InRepExtra == {0}
InZeroExtra(zeros) == IF zeros = 0 THEN {0, 7}
                      ELSE IF zeros = 3 THEN {5}
                      ELSE IF zeros = 16 THEN {1}
                      ELSE IF zeros \in {10, 74} THEN {7}
                      ELSE {0}
\* The n extra bits of an insert length, a copy length or a distance.
InExtra(n) == IF n = 0 THEN {0} ELSE {0, Pow2(n) - 1}
\* The values an output byte that was never written may hold.
InUninit == {0, 65}

\* The value of *got before the call in non-compare mode (not read by yeast()).
CallerGot == 9

(***************************************************************************)
(* Initial state: the call yeast(dest, got, source, len, cmp).             *)
(***************************************************************************)
Cats == <<"lit", "iac", "dist">>
NoTab == [count |-> ZeroCount, symbol |-> << >>]
NoBlk == [num |-> 0, type |-> 0, last |-> 0, left |-> 0,
          types |-> NoTab, count |-> NoTab]
NoCode == [ptr |-> 0, t |-> << >>]

\* state_t.  blk[c] holds the fields *_num, *_type, *_last, *_left, *_types
\* and *_count of category c; code[c] is the array *_code (ptr = 0: NULL).
\* A size_t just below 2^64 is held as the negative number congruent to it.
NoState ==
    [null |-> TRUE, slen |-> 0, left |-> 0, wbits |-> 0, wsize |-> 0,
     dest |-> "NULL", destid |-> 0, cap |-> 0, buf |-> << >>, got |-> 0,
     have |-> 0, ring |-> <<0, 0, 0, 0>>, ring_ptr |-> 0,
     blk |-> [c \in {"lit", "iac", "dist"} |-> NoBlk],
     postfix |-> 0, direct |-> 0, mode |-> << >>,
     lit_codes |-> 0, dist_codes |-> 0,
     code |-> [c \in {"lit", "iac", "dist"} |-> NoCode]]

NoMb == [last |-> 0, n |-> 0, mlen |-> 0, cat |-> 1, k |-> 0, dists |-> 0,
         iac_sym |-> 0, insert |-> 0, copy |-> 0, dist |-> 0, how |-> "none"]

NoPx == [ret |-> "none", tgt |-> "none", c |-> "none", num |-> 0, hskip |-> 0,
         nsym |-> 0, left |-> 0, last |-> 0, rep |-> 0, zeros |-> 0,
         lens |-> << >>, code |-> NoTab, n |-> 0]

NoD == [kind |-> "none", sym |-> 0, dist |-> 0, max |-> 0, len |-> 0]
NoCmd == [kind |-> "none", insert |-> 0, copy |-> 0, mlen |-> 0]
NoGh == [out |-> << >>, mis |-> -1,
         field |-> [kind |-> "none", units |-> 0, stored |-> 0, got |-> 0],
         d |-> NoD, cmd |-> NoCmd, wb |-> << >>, hist |-> << >>]

\* context_map(): its parameters len and trees, rlemax, the map as the read
\* loop left it (in), the map and the table of the inverse move-to-front
\* transform, the index n of its loops, and the code and the reason of a throw.
NoCm == [pc |-> "off", trees |-> 0, len |-> 0, rlemax |-> 0, in |-> << >>,
         map |-> << >>, table |-> << >>, n |-> 0, flag |-> 0, err |-> 0,
         why |-> "none"]

\* The files given to braid are written by brand: the stream wrapped is the
\* empty stream or one uncompressed byte.
MaxFiles == 2
InStream == {[brotli |-> <<6>>, un |-> << >>],
             [brotli |-> <<0, 0, 16, 65, 3>>, un |-> <<65>>]}
InCheck == {[check_type |-> 0, check_len |-> 1],
            [check_type |-> 3, check_len |-> 32]}
InTail == {0, BR_CONTENT_LEN, BR_CONTENT_OFF, BR_CONTENT_LEN + BR_CONTENT_OFF}
InTime == {0}
InName == {<<102>>}
\* A .br file without a brotli segment: the signature and a trailer, with
\* or without a total uncompressed length (of 0).
InBare == {BR_SIG \o <<BR_CONTENT_TRAIL + 7>>,
           BR_SIG \o <<128 + BR_CONTENT_TRAIL + BR_CONTENT_LEN + 7>> \o bvar(0)
                  \o <<128 + BR_CONTENT_TRAIL + BR_CONTENT_LEN + 7>>}
\* Files scan() throws on: a wrong signature and a trailer mask of odd parity
\* (thrown before "*pos = NULL"), then a header without a distance and a
\* distance that leads before the first header (thrown in the back-chain);
\* and a file whose second header, at offset 5, has a distance of zero.
InBad == {BR_SIG \o <<3, 128 + BR_CONTENT_OFF, 128,
                      128 + BR_CONTENT_TRAIL + BR_CONTENT_OFF + 7>>
                 \o bvar(2) \o <<128 + BR_CONTENT_TRAIL + BR_CONTENT_OFF + 7>>,
          <<206, 178, 207, 128, BR_CONTENT_TRAIL + 7>>,
          BR_SIG \o <<128 + BR_CONTENT_TRAIL + 7>>,
          BR_SIG \o <<3, 3, 128 + BR_CONTENT_TRAIL + BR_CONTENT_OFF + 7>>
                 \o bvar(1) \o <<128 + BR_CONTENT_TRAIL + BR_CONTENT_OFF + 7>>,
          BR_SIG \o <<3, 3, 128 + BR_CONTENT_TRAIL + BR_CONTENT_OFF + 7>>
                 \o bvar(3) \o <<128 + BR_CONTENT_TRAIL + BR_CONTENT_OFF + 7>>}
InOpts == {[check_type |-> c.check_type, check_len |-> c.check_len, tail |-> tl,
            mod |-> m, file |-> n, time |-> tm, name |-> nm,
            brotli |-> st.brotli, un |-> st.un] :
           c \in InCheck, tl \in InTail, m \in {0, 1}, n \in {0, 1},
           tm \in InTime, nm \in InName, st \in InStream}

NoIo == [pc |-> "off", files |-> << >>, segs |-> << >>, valid |-> << >>,
         k |-> 0, pos |-> << >>, set |-> FALSE, at |-> 0, any |-> FALSE,
         thrown |-> 0, out |-> << >>, off |-> 0, last |-> 0, count |-> 0,
         len |-> 0, check |-> << >>, masks |-> {}, ret |-> 0,
         status |-> -1, outsegs |-> << >>,
         before |-> << >>, skipped |-> {}, merged |-> {}, missing |-> {}]

InitYeast ==
    /\ pc = "new_state"
    /\ fam \in Families
    /\ \E cmp \in InCmp, len \in InLen, ex \in InExpect :
          arg = [cmp |-> cmp, len |-> len,
                 got0 |-> IF cmp THEN Len(ex) ELSE CallerGot,
                 dest0 |-> "caller",
                 expect |-> IF cmp THEN ex ELSE << >>]
    /\ s = NoState
    /\ mb = NoMb
    /\ px = NoPx
    /\ \E f \in InFail : heap = [live |-> {}, calls |-> 0, fail |-> f]
    /\ err = 0
    /\ ret = [code |-> -1, dest |-> arg.dest0, got |-> arg.got0, len |-> arg.len]
    /\ gh = NoGh
    /\ io = NoIo
    /\ cmap = NoCm

\* throw(code, ...): control goes to the always block of yeast().  s2 is the
\* decoder state at the throw.
throw(code, s2) ==
    /\ pc' = "always"
    /\ err' = code
    /\ s' = s2

\* alloc() fails (throws 1) at the heap.fail-th call.
AllocFails == heap.calls + 1 = heap.fail

(***************************************************************************)
(* new_state() and the try block of yeast().                               *)
(***************************************************************************)
new_state ==
    /\ pc = "new_state"
    /\ IF AllocFails
       THEN /\ throw(1, s)                  \* alloc() threw: s is still NULL
            /\ heap' = [heap EXCEPT !.calls = 1]
       ELSE /\ s' = [NoState EXCEPT
                        !.null = FALSE,
                        !.slen = arg.len,
                        !.dest = IF arg.cmp
                                 THEN (IF arg.got0 # 0 THEN arg.dest0 ELSE "gotptr")
                                 ELSE "NULL",
                        !.buf = arg.expect,
                        !.have = IF arg.cmp THEN arg.got0 ELSE 0,
                        !.ring = <<16, 15, 11, 4>>,
                        !.ring_ptr = 3]
            /\ heap' = [heap EXCEPT !.calls = 1, !.live = {1}]
            /\ pc' = "wbits"
            /\ err' = 0
    \* gh.hist: the distances in the ring, the last one stored first
    /\ gh' = [gh EXCEPT !.hist = IF AllocFails THEN @ ELSE <<4, 11, 15, 16>>]
    /\ UNCHANGED <<io, cmap, fam, arg, mb, px, ret>>

\* WBITS as the draft specification had it before version 04 (16..24 bits).
wbits_large_only(b, b1, b2) == IF b = 0 THEN 16 ELSE b1 + 17

\* WBITS from the first bit b, the three bits b1 read when b is set, and the
\* three bits b2 read when b1 is zero.
wbits(b, b1, b2) ==
    IF b # 0 THEN (IF b1 # 0 THEN b1 + 17
                   ELSE IF b2 # 0 THEN b2 + 8 ELSE 17)
    ELSE 16

\* The window size preamble (WBITS).  gh.wb records the bit fields read.
yeast_wbits ==
    /\ pc = "wbits"
    /\ \E b \in InWb0, b1 \in InWb1, b2 \in InWb2 :
          LET needs == IF b = 0 THEN <<1>>
                       ELSE IF b1 # 0 THEN <<1, 3>> ELSE <<1, 3, 3>>
              wb == wbits(b, b1, b2)
              r == bitsSeq(needs, s.slen, s.left)
              s1 == [s EXCEPT !.slen = r.slen, !.left = r.left]
          IN  IF ~r.ok THEN throw(2, s1) /\ gh' = gh
              ELSE /\ gh' = [gh EXCEPT !.wb = SubSeq(<<b, b1, b2>>, 1, Len(needs))]
                   /\ IF wb = 9 THEN throw(3, [s1 EXCEPT !.wbits = wb])
                      ELSE /\ s' = [s1 EXCEPT !.wbits = wb,
                                              !.wsize = Pow2(wb) - 16]
                           /\ pc' = "metablock"
                           /\ err' = 0
    /\ UNCHANGED <<io, cmap, fam, arg, mb, px, heap, ret>>

(***************************************************************************)
(* metablock(): the meta-block header.                                     *)
(***************************************************************************)
\* return last: back to the loop "while (metablock(s) == 0)" of yeast().
mb_return(last, s2) ==
    /\ s' = s2
    /\ err' = 0
    /\ pc' = IF last = 0 THEN "metablock" ELSE "always"

\* Discard the bits left in the bit buffer; nz tells whether they are non-zero.
Discard(s1, nz) == s1.left # 0 /\ nz = 1

\* ISLAST, ISLASTEMPTY and MNIBBLES.
metablock_start ==
    /\ pc = "metablock"
    /\ \E last \in InIsLast, empty \in InEmpty, n \in InMNibbles :
          LET r1 == bitsSeq(IF last = 1 THEN <<1, 1>> ELSE <<1>>, s.slen, s.left)
              r2 == bits(2, r1.slen, r1.left)
              s1 == [s EXCEPT !.slen = r1.slen, !.left = r1.left]
              s2 == [s EXCEPT !.slen = r2.slen, !.left = r2.left]
          IN  IF ~r1.ok
              THEN throw(2, s1) /\ mb' = NoMb
              ELSE IF last = 1 /\ empty = 1
              THEN mb_return(last, s1) /\ mb' = [NoMb EXCEPT !.last = last]
              ELSE IF ~r2.ok
              THEN throw(2, s2) /\ mb' = [NoMb EXCEPT !.last = last]
              ELSE /\ s' = s2
                   /\ err' = 0
                   /\ mb' = [NoMb EXCEPT !.last = last, !.n = n]
                   /\ pc' = IF n = 3 THEN "mb_meta" ELSE "mb_len"
    /\ UNCHANGED <<io, cmap, fam, arg, px, heap, ret, gh>>

\* A meta-data block: reserved bit, MSKIPBYTES, MSKIPLEN, the skipped bytes.
metablock_metadata ==
    /\ pc = "mb_meta"
    /\ \E rsv \in InBit, n \in InMSkipBytes, nz \in InBit :
       \E v \in InMSkipLen(n) :
          LET r1 == bits(1, s.slen, s.left)
              r2 == bitsSeq(IF n = 0 THEN <<2>> ELSE <<2, n * 8>>, r1.slen, r1.left)
              s1 == [s EXCEPT !.slen = r1.slen, !.left = r1.left]
              s2 == [s EXCEPT !.slen = r2.slen, !.left = r2.left]
              mlen == IF n # 0 THEN v + 1 ELSE 0
              s3 == [s2 EXCEPT !.left = 0]
          IN  IF ~r1.ok THEN throw(2, s1) /\ UNCHANGED <<mb, gh>>
              ELSE IF rsv = 1 THEN throw(3, s1) /\ UNCHANGED <<mb, gh>>
              ELSE IF ~r2.ok THEN throw(2, s2) /\ UNCHANGED <<mb, gh>>
              ELSE /\ mb' = [mb EXCEPT !.n = n, !.mlen = mlen]
                   /\ gh' = [gh EXCEPT !.field =
                                [kind |-> "mskiplen", units |-> n, stored |-> v,
                                 got |-> s.got]]
                   /\ IF n > 1 /\ mlen \div Pow2((n - 1) * 8) = 0
                      THEN throw(3, s2)
                      ELSE IF Discard(s2, nz) THEN throw(3, s2)
                      ELSE IF mlen # 0 /\ mlen > s3.slen THEN throw(2, s3)
                      ELSE mb_return(mb.last, [s3 EXCEPT !.slen = @ - mlen])
    /\ UNCHANGED <<io, cmap, fam, arg, px, heap, ret>>

\* A variant of Comparing() that takes the compare branch only while no output
\* has been compared yet.
ComparingFirstOnly(s1) == s1.have # 0 /\ s1.got = 0

\* The test "s->have || (s->got == 0 && s->dest != NULL)" of metablock(): true
\* in compare mode, where the output is compared and never allocated.
Comparing(s1) == s1.have # 0 \/ (s1.got = 0 /\ s1.dest # "NULL")

\* MLEN, the check against the expected length, and the (re)allocation of the
\* output.  (The test s->got + mlen < s->got needs an output of at least
\* 2^32 - 2^24 bytes; the model's outputs are far below that.)
metablock_mlen ==
    /\ pc = "mb_len"
    /\ \E low \in InMLenLow, high \in InMLenHigh(mb.n) :
          LET n == mb.n
              r == bitsSeq(IF n = 0 THEN <<16>> ELSE <<16, n * 4>>, s.slen, s.left)
              s1 == [s EXCEPT !.slen = r.slen, !.left = r.left]
              mlen == 1 + low + (IF n # 0 THEN high * 65536 ELSE 0)
              stored == low + (IF n # 0 THEN high * 65536 ELSE 0)
              after == IF mb.last = 0 THEN "mb_unc" ELSE "mb_header"
          IN  IF ~r.ok THEN throw(2, s1) /\ UNCHANGED <<mb, gh, heap>>
              ELSE /\ mb' = [mb EXCEPT !.mlen = mlen]
                   /\ gh' = [gh EXCEPT !.field =
                                [kind |-> "mlen", units |-> n + 4, stored |-> stored,
                                 got |-> s.got]]
                   /\ IF n # 0 /\ mlen \div Pow2((n + 3) * 4) = 0
                      THEN throw(3, s1) /\ UNCHANGED heap
                      ELSE IF Comparing(s1)
                      THEN /\ UNCHANGED heap
                           /\ IF s1.got + mlen > s1.have
                              THEN throw(4, s1)
                              ELSE s' = s1 /\ err' = 0 /\ pc' = after
                      ELSE IF AllocFails
                      THEN /\ heap' = [heap EXCEPT !.calls = @ + 1]
                           /\ throw(1, s1)
                      ELSE LET id == IF s1.destid # 0 THEN s1.destid
                                     ELSE heap.calls + 1
                           IN  /\ heap' = [heap EXCEPT !.calls = @ + 1,
                                                       !.live = @ \cup {id}]
                               /\ s' = [s1 EXCEPT !.dest = "heap",
                                                  !.destid = id,
                                                  !.cap = s1.got + mlen]
                               /\ err' = 0
                               /\ pc' = after
    /\ UNCHANGED <<io, cmap, fam, arg, px, ret>>

\* ISUNCOMPRESSED (read when this is not the last meta-block) and the
\* uncompressed data.
metablock_uncompressed ==
    /\ pc = "mb_unc"
    /\ \E u \in InUncompressed, nz \in InBit :
          LET r == bits(1, s.slen, s.left)
              s1 == [s EXCEPT !.slen = r.slen, !.left = r.left]
              s2 == [s1 EXCEPT !.left = 0]
              mlen == mb.mlen
          IN  IF ~r.ok THEN throw(2, s1) /\ UNCHANGED gh
              ELSE IF u = 0
              THEN s' = s1 /\ err' = 0 /\ pc' = "mb_header" /\ UNCHANGED gh
              ELSE IF Discard(s1, nz) THEN throw(3, s1) /\ UNCHANGED gh
              ELSE IF mlen > s2.slen THEN throw(2, s2) /\ UNCHANGED gh
              ELSE \E data \in SeqsOf(InByte, mlen) :
                     /\ IF s2.have # 0
                        THEN IF SubSeqFrom(s2.buf, s2.got + 1, mlen) # data
                             THEN /\ throw(4, s2)
                                  /\ gh' = [gh EXCEPT
                                        !.out = @ \o data,
                                        !.mis = s2.got + FirstDiff(
                                            SubSeqFrom(s2.buf, s2.got + 1, mlen),
                                            data)]
                             ELSE /\ mb_return(0, [s2 EXCEPT !.got = @ + mlen,
                                                             !.slen = @ - mlen])
                                  /\ gh' = [gh EXCEPT !.out = @ \o data]
                        ELSE /\ mb_return(0, [s2 EXCEPT !.buf = @ \o data,
                                                        !.got = @ + mlen,
                                                        !.slen = @ - mlen])
                             /\ gh' = [gh EXCEPT !.out = @ \o data]
    /\ UNCHANGED <<io, cmap, fam, arg, mb, px, heap, ret>>

(***************************************************************************)
(* metablock(): the header of a compressed meta-block.                     *)
(***************************************************************************)
\* block_types(): the bits() calls made and the number returned.
block_types ==
    {[needs |-> <<1>>, num |-> 1] : b \in InNblBit \cap {0}}
    \cup {[needs |-> <<1, 3, c>>, num |-> 1 + Pow2(c) + x] :
             b \in InNblBit \cap {1}, c \in InNblCode,
             x \in {y \in InNblExtra : y < 2}}

\* The call prefix(s, p, num): p is the table tgt of category c, and control
\* comes back at ret.
CallPrefix(tgt, c, num, back) ==
    /\ pc' = "prefix"
    /\ px' = [NoPx EXCEPT !.ret = back, !.tgt = tgt, !.c = c, !.num = num]

\* The table p of a prefix() call receives tab.
StoreTable(s1, tgt, c, tab) ==
    CASE tgt = "types" -> [s1 EXCEPT !.blk[c].types = tab]
      [] tgt = "count" -> [s1 EXCEPT !.blk[c].count = tab]
      [] tgt = "code"  -> [s1 EXCEPT !.code[c].t = Append(@, tab)]

\* NBLTYPESL, NBLTYPESI, NBLTYPESD: the number of block types of category
\* Cats[mb.cat].  With more than one type, the block type and block count
\* codes follow (HTREE_BTYPE, HTREE_BLEN, BLEN).
header_types ==
    /\ pc = "mb_header"
    /\ \E bt \in block_types :
          LET c == Cats[mb.cat]
              r == bitsSeq(bt.needs, s.slen, s.left)
              s1 == [s EXCEPT !.slen = r.slen, !.left = r.left,
                              !.blk[c].last = 1, !.blk[c].type = 0]
          IN  IF ~r.ok THEN throw(2, s1) /\ UNCHANGED <<mb, px>>
              ELSE IF bt.num > 1
              THEN /\ s' = [s1 EXCEPT !.blk[c].num = bt.num]
                   /\ err' = 0
                   /\ CallPrefix("types", c, bt.num + 2, "h_count")
                   /\ UNCHANGED mb
              ELSE /\ s' = [s1 EXCEPT !.blk[c].num = 1, !.blk[c].left = -1]
                   /\ err' = 0
                   /\ mb' = [mb EXCEPT !.cat = IF mb.cat < 3 THEN @ + 1 ELSE 1]
                   /\ pc' = IF mb.cat < 3 THEN "mb_header" ELSE "h_params"
                   /\ UNCHANGED px
    /\ UNCHANGED <<io, cmap, fam, arg, heap, ret, gh>>

\* NPOSTFIX, NDIRECT, the context modes CMODE and NTREESL.
header_params ==
    /\ pc = "h_params"
    /\ \E postfix \in InPostfix, direct \in InDirect, bt \in block_types :
       \E modes \in SeqsOf(InMode, s.blk["lit"].num) :
          LET r == bitsSeq(<<2, 4>> \o [k \in 1..s.blk["lit"].num |-> 2]
                               \o bt.needs, s.slen, s.left)
              s1 == [s EXCEPT !.slen = r.slen, !.left = r.left]
              dr == direct * Pow2(postfix)
          IN  IF ~r.ok THEN throw(2, s1) /\ UNCHANGED mb
              ELSE /\ s' = [s1 EXCEPT !.postfix = postfix, !.direct = dr,
                                      !.mode = modes, !.lit_codes = bt.num]
                   /\ err' = 0
                   /\ mb' = [mb EXCEPT !.dists = 16 + dr + 48 * Pow2(postfix)]
                   /\ pc' = IF bt.num > 1 THEN "context_map_lit" ELSE "h_ntreesd"
    /\ UNCHANGED <<io, cmap, fam, arg, px, heap, ret, gh>>

\* NTREESD.
header_ntreesd ==
    /\ pc = "h_ntreesd"
    /\ \E bt \in block_types :
          LET r == bitsSeq(bt.needs, s.slen, s.left)
              s1 == [s EXCEPT !.slen = r.slen, !.left = r.left]
          IN  IF ~r.ok THEN throw(2, s1) /\ UNCHANGED mb
              ELSE /\ s' = [s1 EXCEPT !.dist_codes = bt.num]
                   /\ err' = 0
                   /\ mb' = [mb EXCEPT !.cat = 1]
                   /\ pc' = IF bt.num > 1 THEN "context_map_dist" ELSE "h_alloc"
    /\ UNCHANGED <<io, cmap, fam, arg, px, heap, ret, gh>>

\* The number of prefix codes of a category, and the size of its alphabet.
NumCodes(s1, c) == IF c = "lit" THEN s1.lit_codes
                   ELSE IF c = "iac" THEN s1.blk["iac"].num
                   ELSE s1.dist_codes
Alphabet(c) == IF c = "lit" THEN MAXLITS
               ELSE IF c = "iac" THEN MAXIACS ELSE mb.dists

\* s->lit_code = alloc(NULL, ...) (then iac_code, dist_code), and the first
\* prefix() call of the loop that fills the array.  The pointer the field held
\* before is overwritten.
header_alloc ==
    /\ pc = "h_alloc"
    /\ LET c == Cats[mb.cat]
           id == heap.calls + 1
       IN  IF AllocFails
           THEN /\ heap' = [heap EXCEPT !.calls = id]
                /\ throw(1, s)
                /\ UNCHANGED <<mb, px>>
           ELSE /\ heap' = [heap EXCEPT !.calls = id, !.live = @ \cup {id}]
                /\ s' = [s EXCEPT !.code[c] = [ptr |-> id, t |-> << >>]]
                /\ err' = 0
                /\ mb' = [mb EXCEPT !.k = 0]
                /\ CallPrefix("code", c, Alphabet(c), "h_code")
    /\ UNCHANGED <<io, cmap, fam, arg, ret, gh>>

\* The rest of the loop that fills an array of prefix codes; after the distance
\* codes the header is done.
header_code ==
    /\ pc = "h_code"
    /\ LET c == Cats[mb.cat]
       IN  IF mb.k + 1 < NumCodes(s, c)
           THEN /\ mb' = [mb EXCEPT !.k = @ + 1]
                /\ CallPrefix("code", c, Alphabet(c), "h_code")
           ELSE /\ mb' = [mb EXCEPT !.k = 0,
                                    !.cat = IF mb.cat < 3 THEN @ + 1 ELSE 1]
                /\ pc' = IF mb.cat < 3 THEN "h_alloc" ELSE "command"
                /\ UNCHANGED px
    /\ UNCHANGED <<io, cmap, fam, arg, s, heap, err, ret, gh>>

(***************************************************************************)
(* prefix(): read a prefix code description.                               *)
(***************************************************************************)
\* k calls of bits(s, 1), as decode() makes them.
bitsRep(k, sl, lf) == bitsSeq([i \in 1..k |-> 1], sl, lf)

\* assert() failed: abort().
abort ==
    /\ pc' = "abort"
    /\ UNCHANGED <<s, err>>

\* prefix() returns, having built tab.
prefix_return(s1, tab) ==
    /\ s' = StoreTable(s1, px.tgt, px.c, tab)
    /\ err' = 0
    /\ pc' = px.ret
    /\ px' = NoPx

\* HSKIP, and the whole of a simple prefix code.
prefix_start ==
    /\ pc = "prefix"
    /\ \E h \in InHskip(px.num), syms \in InSimple(px.num), sel \in InBit :
          LET num == px.num
              abits == AlphabetBits(num)
              nsym == Len(syms)
              bad == {j \in 1..nsym : syms[j] >= num}
              upto == IF bad = {} THEN nsym
                      ELSE CHOOSE j \in bad : \A i \in bad : j <= i
              r0 == bits(2, s.slen, s.left)
              r == bitsSeq(<<2, 2>> \o [k \in 1..upto |-> abits]
                              \o (IF bad = {} /\ nsym = 4 THEN <<1>> ELSE << >>),
                           s.slen, s.left)
              s0 == [s EXCEPT !.slen = r0.slen, !.left = r0.left]
              s1 == [s EXCEPT !.slen = r.slen, !.left = r.left]
          IN  IF ~r0.ok THEN throw(2, s0) /\ px' = NoPx
              ELSE IF h # 1
              THEN /\ s' = s0
                   /\ err' = 0
                   /\ pc' = "p_clc"
                   /\ px' = [px EXCEPT !.hskip = h, !.nsym = h, !.left = 32,
                                       !.rep = 0, !.code = FixedCode]
              ELSE IF ~r.ok THEN throw(2, s1) /\ px' = NoPx
              ELSE IF bad # {} THEN throw(3, s1) /\ px' = NoPx
              ELSE prefix_return(s1, simple(syms, IF nsym = 4 THEN 4 + sel
                                                  ELSE nsym))
    /\ UNCHANGED <<io, cmap, fam, arg, mb, heap, ret, gh>>

\* One turn of the loop that reads the code length code lengths; when the loop
\* ends, the checks on the code length code and its construction.
prefix_clc ==
    /\ pc = "p_clc"
    /\ \E d \in decode(px.code) :
          LET r == bitsRep(d.n, s.slen, s.left)
              s1 == [s EXCEPT !.slen = r.slen, !.left = r.left]
              n == order[px.nsym + 1]
              len == d.sym
              nsym == px.nsym + 1
              rep == IF len # 0 THEN px.rep + 1 ELSE px.rep
              last == IF len # 0 THEN n ELSE px.last
              left == IF len # 0 THEN px.left - (32 \div Pow2(len)) ELSE px.left
              lens == IF len # 0 THEN InsertLen(px.lens, <<n, len>>) ELSE px.lens
              done == (len # 0 /\ left <= 0) \/ nsym >= CODE_LENGTH_CODES
              code == IF left # 0
                      THEN [count |-> [px.code.count EXCEPT ![0] = 1],
                            symbol |-> [px.code.symbol EXCEPT ![1] = last]]
                      ELSE construct(lens)
          IN  /\ d.ok => d.sym \in InClcLen(n)
              /\ IF ~r.ok THEN throw(2, s1) /\ px' = NoPx
                 ELSE IF ~d.ok THEN abort /\ px' = px
                 ELSE IF ~done
                 THEN /\ s' = s1
                      /\ err' = 0
                      /\ pc' = "p_clc"
                      /\ px' = [px EXCEPT !.nsym = nsym, !.rep = rep,
                                          !.last = last, !.left = left,
                                          !.lens = lens]
                 ELSE IF left < 0 \/ (left # 0 /\ rep # 1)
                 THEN throw(3, s1) /\ px' = NoPx
                 ELSE /\ s' = s1
                      /\ err' = 0
                      /\ pc' = "p_len"
                      /\ px' = [px EXCEPT !.code = code, !.left = Pow2(MAXBITS),
                                          !.last = 8, !.rep = 0, !.zeros = 0,
                                          !.nsym = 0, !.lens = << >>,
                                          !.n = IF left # 0 THEN @
                                                ELSE CODE_LENGTH_CODES]
    /\ UNCHANGED <<io, cmap, fam, arg, mb, heap, ret, gh>>

\* One turn of the loop that reads the code lengths; when the loop ends, the
\* check for an oversubscribed code and construct(p, lens, nsym) with its
\* assert(n < MAXSYMS).
prefix_len ==
    /\ pc = "p_len"
    /\ \E d \in decode(px.code), xr \in InRepExtra, xz \in InZeroExtra(px.zeros) :
          LET len == d.sym
              num == px.num
              r == bitsSeq([i \in 1..d.n |-> 1]
                              \o (IF ~d.ok \/ len < 16 THEN << >>
                                  ELSE IF len = 16 THEN <<2>> ELSE <<3>>),
                           s.slen, s.left)
              s1 == [s EXCEPT !.slen = r.slen, !.left = r.left]
              rep == (IF px.rep # 0 THEN (px.rep - 2) * 4 ELSE 0) + 3 + xr
              zeros == (IF px.zeros # 0 THEN (px.zeros - 2) * 8 ELSE 0) + 3 + xz
              n == IF len < 16 THEN 1
                   ELSE IF len = 16 THEN rep - px.rep ELSE zeros - px.zeros
              many == IF len < 16 THEN px.nsym = num ELSE px.nsym + n > num
              left == IF len = 0 \/ len = 17 THEN px.left
                      ELSE IF len < 16 THEN px.left - (Pow2(MAXBITS) \div Pow2(len))
                      ELSE px.left - n * (Pow2(MAXBITS) \div Pow2(px.last))
              fill == IF len = 0 \/ len = 17 \/ left < 0 THEN << >>
                      ELSE [k \in 1..n |->
                               <<px.nsym + k - 1, IF len < 16 THEN len ELSE px.last>>]
              nsym == IF len = 16 /\ left < 0 THEN px.nsym ELSE px.nsym + n
              lens == px.lens \o fill
          IN  IF ~r.ok THEN throw(2, s1) /\ px' = NoPx
              ELSE IF ~d.ok THEN abort /\ px' = px
              ELSE IF many THEN throw(3, s1) /\ px' = NoPx
              ELSE IF left > 0
              THEN /\ s' = s1
                   /\ err' = 0
                   /\ pc' = "p_len"
                   /\ px' = [px EXCEPT
                               !.nsym = nsym, !.left = left, !.lens = lens,
                               !.last = IF len # 0 /\ len < 16 THEN len ELSE @,
                               !.rep = IF len = 16 THEN rep ELSE 0,
                               !.zeros = IF len = 17 THEN zeros ELSE 0]
              ELSE IF left < 0 THEN throw(3, s1) /\ px' = NoPx
              ELSE IF ~(nsym < MAXSYMS)
              THEN abort /\ px' = [px EXCEPT !.nsym = nsym, !.lens = lens,
                                            !.n = nsym]
              ELSE prefix_return(s1, construct(lens))
    /\ UNCHANGED <<io, cmap, fam, arg, mb, heap, ret, gh>>

(***************************************************************************)
(* metablock(): the commands of a compressed meta-block.                   *)
(***************************************************************************)
insert_map == <<0, 0, 0, 0, 8, 8, 0, 16, 8, 16, 16>>
insert_base == <<0, 1, 2, 3, 4, 5, 6, 8, 10, 14, 18, 26, 34, 50, 66, 98, 130,
                 194, 322, 578, 1090, 2114, 6210, 22594>>
insert_extra == <<0, 0, 0, 0, 0, 0, 1, 1, 2, 2, 3, 3, 4, 4, 5, 5, 6, 7, 8, 9,
                  10, 12, 14, 24>>
copy_map == <<0, 8, 0, 8, 0, 8, 16, 0, 16, 8, 16>>
copy_base == <<2, 3, 4, 5, 6, 7, 8, 9, 10, 12, 14, 18, 22, 30, 38, 54, 70,
               102, 134, 198, 326, 582, 1094, 2118>>
copy_extra == <<0, 0, 0, 0, 0, 0, 0, 0, 1, 1, 2, 2, 3, 3, 4, 4, 5, 5, 6, 7,
                8, 9, 10, 24>>

\* The insert and the copy symbol of an insert-and-copy symbol.
insert_sym(sym) == insert_map[(sym \div 64) + 1] + ((sym \div 8) % 8)
copy_sym(sym) == copy_map[(sym \div 64) + 1] + (sym % 8)

\* A variant of mlen_exceeded() that lets a length pass MLEN by one byte.
mlen_exceeded_by_two(n, mlen) == n > mlen + 1

\* The tests "insert > mlen" and "copy > mlen" of metablock(), which throw 3.
mlen_exceeded(n, mlen) == n > mlen

\* The insert-and-copy symbol of a command with its insert and copy lengths.
command_iac ==
    /\ pc = "command"
    /\ LET b == s.blk["iac"]
       IN  IF b.left = 0
           THEN /\ pc' = "iac_switch"
                /\ gh' = [gh EXCEPT !.cmd = NoCmd]
                /\ UNCHANGED <<s, mb, err>>
           ELSE \E d \in decode(s.code["iac"].t[b.type + 1]) :
                \E xi \in InExtra(insert_extra[insert_sym(d.sym) + 1]),
                   xc \in InExtra(copy_extra[copy_sym(d.sym) + 1]) :
                   LET isym == insert_sym(d.sym)
                       csym == copy_sym(d.sym)
                       r == bitsSeq([i \in 1..d.n |-> 1]
                                       \o (IF d.ok THEN <<insert_extra[isym + 1],
                                                          copy_extra[csym + 1]>>
                                           ELSE << >>),
                                    s.slen, s.left)
                       s1 == [s EXCEPT !.slen = r.slen, !.left = r.left,
                                       !.blk["iac"].left = @ - 1]
                       insert == insert_base[isym + 1] + xi
                       copy == copy_base[csym + 1] + xc
                       mlen == mb.mlen - insert
                       g == [gh EXCEPT !.cmd = [kind |-> "iac", insert |-> insert,
                                                copy |-> copy, mlen |-> mb.mlen]]
                   IN  IF ~r.ok
                       THEN throw(2, s1) /\ UNCHANGED mb /\ gh' = [gh EXCEPT !.cmd = NoCmd]
                       ELSE IF ~d.ok
                       THEN abort /\ UNCHANGED mb /\ gh' = [gh EXCEPT !.cmd = NoCmd]
                       ELSE IF mlen_exceeded(insert, mb.mlen)
                       THEN throw(3, s1) /\ UNCHANGED mb /\ gh' = g
                       ELSE /\ gh' = g
                            /\ mb' = [mb EXCEPT !.iac_sym = d.sym, !.insert = insert,
                                                !.copy = copy, !.mlen = mlen]
                            /\ IF insert = 0 /\ mlen = 0
                               THEN mb_return(mb.last, s1)
                               ELSE /\ s' = s1
                                    /\ err' = 0
                                    /\ pc' = IF insert # 0 THEN "literal" ELSE "copy"
    /\ UNCHANGED <<io, cmap, fam, arg, px, heap, ret>>

\* One literal of the insert: decoded, then compared or written.  (s->lit_codes
\* is 1 here, so the literal code is s->lit_code[0].)
command_literal ==
    /\ pc = "literal"
    /\ LET b == s.blk["lit"]
       IN  IF b.left = 0
           THEN /\ pc' = "lit_switch"
                /\ UNCHANGED <<s, mb, err, gh>>
           ELSE \E d \in decode(s.code["lit"].t[1]) :
                   LET r == bitsRep(d.n, s.slen, s.left)
                       s1 == [s EXCEPT !.slen = r.slen, !.left = r.left,
                                       !.blk["lit"].left = @ - 1]
                       s2 == [s1 EXCEPT !.got = @ + 1]
                       s3 == [s2 EXCEPT !.buf = Append(@, d.sym)]
                       insert == mb.insert - 1
                       next(s4) ==
                           IF insert = 0 /\ mb.mlen = 0
                           THEN mb_return(mb.last, s4)
                           ELSE /\ s' = s4
                                /\ err' = 0
                                /\ pc' = IF insert # 0 THEN "literal" ELSE "copy"
                   IN  IF ~r.ok THEN throw(2, s1) /\ UNCHANGED <<mb, gh>>
                       ELSE IF ~d.ok THEN abort /\ UNCHANGED <<mb, gh>>
                       ELSE /\ mb' = [mb EXCEPT !.insert = insert]
                            /\ IF s1.have # 0
                               THEN IF s1.buf[s1.got + 1] # d.sym
                                    THEN /\ throw(4, s2)
                                         /\ gh' = [gh EXCEPT !.out = Append(@, d.sym),
                                                             !.mis = s1.got]
                                    ELSE /\ next(s2)
                                         /\ gh' = [gh EXCEPT !.out = Append(@, d.sym)]
                               ELSE /\ next(s3)
                                    /\ gh' = [gh EXCEPT !.out = Append(@, d.sym)]
    /\ UNCHANGED <<io, cmap, fam, arg, px, heap, ret>>

\* A variant of back[] in which every symbol below 16 takes the last distance.
back_last == <<0, 0, 0, 0, 0, 0, 0, 0, 0, 0, 0, 0, 0, 0, 0, 0>>

back == <<0, 1, 2, 3, 0, 0, 0, 0, 0, 0, 1, 1, 1, 1, 1, 1>>
delta == <<0, 0, 0, 0, -1, 1, -2, 2, -3, 3, -1, 1, -2, 2, -3, 3>>

\* A distance is an unsigned number below 2^32 + 2^26; the numbers 2^32 - k
\* that ring[] + delta[] wraps to are held as -k.  Greater(dist, max) is
\* dist > max for a max below 2^31.
Greater(dist, max) == dist < 0 \/ dist > max

\* distance(): the number of extra bits read for distance symbol sym, and the
\* distance, given the value xb of those bits.
distance_bits(s1, sym) ==
    IF sym < 16 + s1.direct THEN 0
    ELSE 1 + ((sym - s1.direct - 16) \div Pow2(s1.postfix + 1))

distance(s1, sym, xb) ==
    IF sym < 16
    THEN s1.ring[((s1.ring_ptr + 4 - back[sym + 1]) % 4) + 1] + delta[sym + 1]
    ELSE IF sym < 16 + s1.direct THEN sym - 15
    ELSE LET n == sym - s1.direct - 16
             x == 1 + (n \div Pow2(s1.postfix + 1))
             off == (2 + ((n \div Pow2(s1.postfix)) % 2)) * Pow2(x) - 4
         IN  (off + xb) * Pow2(s1.postfix) + (n % Pow2(s1.postfix))
             + s1.direct + 1

\* A variant of distance_store() that stores every distance of a non-zero
\* symbol, whatever max is.
distance_store_any(s1, sym, dist, max) ==
    IF sym # 0
    THEN [s1 EXCEPT !.ring_ptr = (s1.ring_ptr + 1) % 4,
                    !.ring[((s1.ring_ptr + 1) % 4) + 1] = dist]
    ELSE s1

\* The end of distance(): the ring buffer takes the distance of a non-zero
\* symbol that is not greater than max.
distance_store(s1, sym, dist, max) ==
    IF sym # 0 /\ ~Greater(dist, max)
    THEN [s1 EXCEPT !.ring_ptr = (s1.ring_ptr + 1) % 4,
                    !.ring[((s1.ring_ptr + 1) % 4) + 1] = dist]
    ELSE s1

doffset == <<0, 0, 0, 0, 0, 4096, 9216, 21504, 35840, 44032, 53248, 63488,
             74752, 87040, 93696, 100864, 104704, 106752, 108928, 113536,
             115968, 118528, 119872, 121280, 122016>>
ndbits == <<0, 0, 0, 0, 10, 10, 11, 11, 10, 10, 10, 10, 10, 9, 9, 8, 7, 7, 8,
            7, 7, 6, 6, 5, 5>>
NTRANSFORMS == 121

\* The static dictionary and the transforms are data outside the model: the
\* word at offset 0 under transform 0 is "time"; any other word is one of a few
\* strings of its length, and a transformed word may be one byte longer or
\* (omitfirst(), omitlast() of src/yeast.c:855-877) empty.
DictWords(copy, index, xform) ==
    IF xform = 0 /\ index = 0
    THEN {<<116, 105, 109, 101>>}
    ELSE {[k \in 1..(copy + e) |-> b] :
             b \in InByte, e \in (IF xform = 0 THEN {0} ELSE {0 - copy, 0, 1})}

\* dict_word(): FALSE when it throws 3, for a copy length and an excess
\* distance id (held like a distance).
dict_word_ok(copy, id) ==
    /\ copy <= 24
    /\ copy >= 4
    /\ id >= 0
    /\ id \div Pow2(ndbits[copy + 1]) < NTRANSFORMS

\* A variant of dict_word() that writes no byte of any word.
dict_word_empty(copy, id) == {<< >>}

dict_word(copy, id) ==
    DictWords(copy, doffset[copy + 1] + (id % Pow2(ndbits[copy + 1])) * copy,
              id \div Pow2(ndbits[copy + 1]))

\* The bytes a copy of n bytes at distance dist appends to buf, byte by byte.
RECURSIVE CopyBytes(_, _, _)
CopyBytes(buf, dist, n) ==
    IF n = 0 THEN buf
    ELSE CopyBytes(Append(buf, buf[Len(buf) + 1 - dist]), dist, n - 1)

\* The copy of a command: the distance (from the ring for symbols below 128,
\* else decoded by distance()), then the copy from the static dictionary or
\* from the output so far, compared or written.
command_copy ==
    /\ pc = "copy"
    /\ LET b == s.blk["dist"]
           max == Min(s.got, s.wsize)
           implicit == mb.iac_sym < 128
       IN  IF ~implicit /\ b.left = 0
           THEN /\ pc' = "dist_switch"
                /\ gh' = [gh EXCEPT !.d = NoD]
                /\ UNCHANGED <<s, mb, err>>
           ELSE \E d \in (IF implicit THEN {[ok |-> TRUE, sym |-> 0, n |-> 0]}
                          ELSE decode(s.code["dist"].t[1])) :
                \E xb \in InExtra(IF implicit THEN 0 ELSE distance_bits(s, d.sym)) :
                \E w \in (IF dict_word_ok(mb.copy, distance(s, d.sym, xb) - max - 1)
                          THEN dict_word(mb.copy, distance(s, d.sym, xb) - max - 1)
                          ELSE {<< >>}),
                   u \in SeqsOf(InUninit,
                                IF distance(s, d.sym, xb) = 0 /\ mb.copy <= mb.mlen
                                THEN mb.copy ELSE 0) :
                   LET r == bitsSeq([i \in 1..d.n |-> 1]
                                       \o (IF d.ok /\ ~implicit
                                           THEN <<distance_bits(s, d.sym)>>
                                           ELSE << >>),
                                    s.slen, s.left)
                       dist == IF implicit THEN s.ring[s.ring_ptr + 1]
                               ELSE distance(s, d.sym, xb)
                       s1 == [s EXCEPT !.slen = r.slen, !.left = r.left,
                                       !.blk["dist"].left =
                                           IF implicit THEN @ ELSE @ - 1]
                       s2 == IF implicit THEN s1
                             ELSE distance_store(s1, d.sym, dist, max)
                       copy == IF Greater(dist, max) THEN Len(w) ELSE mb.copy
                       mlen == mb.mlen - copy
                       want == SubSeqFrom(s2.buf, s2.got + 1, copy)
                       diff == {k \in 0..copy - 1 :
                                   s2.buf[s2.got + k + 1] # s2.buf[s2.got + k + 1 - dist]}
                       first == CHOOSE k \in diff : \A j \in diff : k <= j
                       g == [gh EXCEPT !.d = [kind |-> IF implicit THEN "last"
                                                               ELSE "sym",
                                                      sym |-> d.sym,
                                                      dist |-> dist,
                                                      max |-> max,
                                                      len |-> copy],
                                       !.hist = IF s2.ring_ptr # s.ring_ptr
                                                THEN <<dist>> \o SubSeq(@, 1, 3)
                                                ELSE @]
                       done(s3) ==
                           /\ mb' = [mb EXCEPT !.dist = dist, !.mlen = mlen,
                                               !.how = IF Greater(dist, max)
                                                       THEN "dictionary" ELSE "window"]
                           /\ IF mlen = 0 THEN mb_return(mb.last, s3)
                              ELSE s' = s3 /\ err' = 0 /\ pc' = "command"
                   IN  IF ~r.ok
                       THEN throw(2, s1) /\ UNCHANGED mb /\ gh' = [gh EXCEPT !.d = NoD]
                       ELSE IF ~d.ok
                       THEN abort /\ UNCHANGED mb /\ gh' = [gh EXCEPT !.d = NoD]
                       ELSE IF Greater(dist, max)
                       THEN IF ~dict_word_ok(mb.copy, dist - max - 1)
                               \/ mlen_exceeded(copy, mb.mlen)
                            THEN throw(3, s2) /\ UNCHANGED mb /\ gh' = g
                            ELSE IF s2.have # 0
                            THEN IF want # w
                                 THEN /\ throw(4, s2)
                                      /\ gh' = [g EXCEPT
                                            !.out = @ \o w,
                                            !.mis = s2.got + FirstDiff(want, w)]
                                      /\ UNCHANGED mb
                                 ELSE /\ done([s2 EXCEPT !.got = @ + copy])
                                      /\ gh' = [g EXCEPT !.out = @ \o w]
                            ELSE /\ done([s2 EXCEPT !.got = @ + copy,
                                                    !.buf = @ \o w])
                                 /\ gh' = [g EXCEPT !.out = @ \o w]
                       ELSE IF mlen_exceeded(copy, mb.mlen)
                       THEN throw(3, s2) /\ UNCHANGED mb /\ gh' = g
                       ELSE IF s2.have # 0
                       THEN IF diff # {}
                            THEN /\ throw(4, [s2 EXCEPT !.got = @ + first])
                                 /\ gh' = [g EXCEPT !.mis = s2.got + first]
                                 /\ mb' = [mb EXCEPT !.dist = dist, !.mlen = mlen,
                                                     !.how = "window"]
                            ELSE /\ done([s2 EXCEPT !.got = @ + copy])
                                 /\ gh' = [g EXCEPT !.out = @ \o want]
                       ELSE LET buf == IF dist = 0 THEN s2.buf \o u
                                       ELSE CopyBytes(s2.buf, dist, copy)
                            IN  /\ done([s2 EXCEPT !.got = @ + copy, !.buf = buf])
                                /\ gh' = [g EXCEPT !.out =
                                             @ \o SubSeqFrom(buf, s2.got + 1, copy)]
    /\ UNCHANGED <<io, cmap, fam, arg, px, heap, ret>>

(***************************************************************************)
(* The always block of yeast() and free_state().                           *)
(***************************************************************************)
yeast_always ==
    /\ pc = "always"
    /\ pc' = "returned"
    /\ IF s.null
       THEN ret' = [ret EXCEPT !.code = err]
       ELSE ret' = [code |-> err,
                    len |-> ret.len - s.slen,
                    dest |-> IF arg.cmp THEN ret.dest ELSE s.dest,
                    got |-> s.got]
    /\ heap' = IF s.null THEN heap
               ELSE [heap EXCEPT !.live = @ \ {s.code["lit"].ptr,
                                               s.code["iac"].ptr,
                                               s.code["dist"].ptr, 1}]
    /\ UNCHANGED <<io, cmap, fam, arg, s, mb, px, err, gh>>

NextYeast ==
    \/ new_state
    \/ yeast_wbits
    \/ metablock_start
    \/ metablock_metadata
    \/ metablock_mlen
    \/ metablock_uncompressed
    \/ header_types
    \/ header_params
    \/ header_ntreesd
    \/ header_alloc
    \/ header_code
    \/ prefix_start
    \/ prefix_clc
    \/ prefix_len
    \/ command_iac
    \/ command_literal
    \/ command_copy
    \/ yeast_always

SpecYeast == InitYeast /\ [][NextYeast]_vars

(***************************************************************************)
(* brand, braid and broad.  The second specification: brand writes up to   *)
(* MaxFiles files, braid merges them file by file, broad reads the result. *)
(***************************************************************************)
InitBraid ==
    /\ pc = "framing"
    /\ fam = "hdr"
    /\ arg = [cmp |-> FALSE, len |-> 0, got0 |-> CallerGot, dest0 |-> "caller",
              expect |-> << >>]
    /\ s = NoState
    /\ mb = NoMb
    /\ px = NoPx
    /\ heap = [live |-> {}, calls |-> 0, fail |-> 0]
    /\ err = 0
    /\ ret = [code |-> -1, dest |-> arg.dest0, got |-> arg.got0, len |-> arg.len]
    /\ gh = NoGh
    /\ io = [NoIo EXCEPT !.pc = "brand"]
    /\ cmap = NoCm

Framing == UNCHANGED <<pc, fam, arg, s, mb, px, heap, err, ret, gh, cmap>>

\* The files and the history after wrap() wrote w for the options o.
Wrapped(st, o, w) ==
    [st EXCEPT !.files = Append(@, w.file),
               !.segs = Append(@, o.brotli),
               !.valid = Append(@, scan(w.file).ok /\ broad(w.file).code = 0),
               !.masks = @ \cup w.masks]

\* brand: wrap() writes one more file.
brand_wrap ==
    /\ io.pc = "brand"
    /\ Len(io.files) < MaxFiles
    /\ \E o \in InOpts : io' = Wrapped(io, o, wrap(o))
    /\ Framing

\* A file that brand did not write is among those given to braid.
given_file ==
    /\ io.pc = "brand"
    /\ Len(io.files) < MaxFiles
    /\ \E f \in InBare \cup InBad :
          io' = [io EXCEPT !.files = Append(@, f),
                           !.valid = Append(@, scan(f).ok /\ broad(f).code = 0),
                           !.masks = @ \cup (IF scan(f).ok THEN {f[5]} ELSE {})]
    /\ Framing

\* A file braid cannot open is among those given to it.
missing_file ==
    /\ io.pc = "brand"
    /\ Len(io.files) < MaxFiles
    /\ io' = [io EXCEPT !.files = Append(@, << >>),
                        !.valid = Append(@, FALSE),
                        !.missing = @ \cup {Len(io.files) + 1}]
    /\ Framing

\* braid: main() up to its loop over the files.
main_start ==
    /\ io.pc = "brand"
    /\ io' = [io EXCEPT !.pc = IF Len(io.files) = 0 THEN "trailer" ELSE "open",
                        !.k = 1, !.out = BR_SIG, !.off = 4, !.last = 0,
                        !.count = 0, !.len = 0, !.check = << >>, !.ret = 0]
    /\ Framing

\* main()'s locals after scan() gave r: "any = pos->next != NULL", or the
\* throw.
Running(st) == <<st.out, st.off, st.last, st.count, st.len, st.check>>

Scanned(st, r) ==
    IF r.ok
    THEN [st EXCEPT !.pc = "copy", !.pos = r.pos, !.set = TRUE, !.at = r.at,
                    !.any = Len(r.pos) > 1, !.thrown = 0,
                    !.before = Running(st)]
    ELSE IF r.code = 0
    THEN [st EXCEPT !.pc = "scanning", !.pos = r.pos, !.set = TRUE,
                    !.before = Running(st)]
    ELSE [st EXCEPT !.pc = "cleanup", !.pos = r.pos, !.set = r.set,
                    !.thrown = r.code, !.before = Running(st),
                    !.skipped = @ \cup {st.k}]

\* The try block: open the file and scan() it.  When fopen() gives NULL,
\* throw(1, "could not open") comes before scan(): pos is not set.
main_scan ==
    /\ io.pc = "open"
    /\ io' = IF io.k \in io.missing
             THEN [io EXCEPT !.pc = "cleanup", !.pos = << >>, !.set = FALSE,
                             !.thrown = 1, !.before = Running(io),
                             !.skipped = @ \cup {io.k}]
             ELSE Scanned(io, scan(io.files[io.k]))
    /\ Framing

\* scan() in a back-chain that stays at one header: "while (at > 4)" pushes
\* the same offset again and again, for as long as malloc() gives memory,
\* and then push() throws -1.
main_scan_loop ==
    /\ io.pc = "scanning"
    /\ io' = [io EXCEPT !.pc = "cleanup", !.thrown = -1,
                        !.skipped = @ \cup {io.k}]
    /\ Framing

\* One turn of "while (pos->next != NULL)": copy() and the count.
main_copy ==
    /\ io.pc = "copy"
    /\ Len(io.pos) > 1
    /\ io' = [copy_seg(io.files[io.k], io) EXCEPT
                 !.count = IF @ < 2 THEN @ + 1 ELSE @]
    /\ Framing

\* The second preserve block: the trailer's uncompressed length.
main_length ==
    /\ io.pc = "copy"
    /\ Len(io.pos) <= 1
    /\ LET f == io.files[io.k]
           trail == getc(f, io.at)
           ro == IF And(trail, BR_CONTENT_OFF) # 0 THEN getbvar(f, io.at + 1)
                 ELSE [ok |-> TRUE, code |-> 0, val |-> 0, next |-> io.at + 1]
           rl == getbvar(f, ro.next)
           st == [io EXCEPT !.pc = "cleanup", !.merged = @ \cup {io.k}]
       IN  io' = IF io.len = -1 THEN st
                 ELSE IF And(trail, BR_CONTENT_LEN) # 0
                 THEN (IF ~ro.ok
                       THEN [st EXCEPT !.thrown = ro.code]
                       ELSE IF ~rl.ok
                       THEN [st EXCEPT !.thrown = rl.code]
                       ELSE [st EXCEPT !.len = @ + rl.val])
                 ELSE IF io.any THEN [st EXCEPT !.len = -1]
                 ELSE st
    /\ Framing

\* The always and catch blocks, and the step to the next file.  When scan()
\* threw before "*pos = NULL", pos was never set: it may hold NULL, or
\* anything else, which pop() then frees.  When the file was not opened,
\* fclose(in) is fclose(NULL), which may return or not.
main_cleanup ==
    /\ io.pc = "cleanup"
    /\ \E null \in IF io.set THEN {TRUE} ELSE {TRUE, FALSE},
          closes \in IF io.k \in io.missing THEN {TRUE, FALSE} ELSE {TRUE} :
          io' = IF ~null \/ ~closes THEN [io EXCEPT !.pc = "crash"]
                ELSE [io EXCEPT !.pc = IF io.k < Len(io.files) THEN "open"
                                       ELSE "trailer",
                                !.k = @ + 1, !.pos = << >>, !.set = FALSE,
                                !.thrown = 0,
                                !.ret = IF io.thrown # 0 THEN 1 ELSE @]
    /\ Framing

\* main() after the loop: the trailer.
main_trailer ==
    /\ io.pc = "trailer"
    /\ LET len == IF io.count = 0 THEN -1 ELSE io.len
           t0 == BR_CONTENT_TRAIL
                 + (IF io.count > 1 THEN BR_CHECK_XXH32_4 ELSE 7)
                 + (IF len # -1 THEN BR_CONTENT_LEN ELSE 0)
                 + (IF io.last # 0 THEN BR_CONTENT_OFF ELSE 0)
           trail == Xor(t0, parity(t0))
       IN  io' = [io EXCEPT
                    !.pc = "broad",
                    !.len = len,
                    !.masks = @ \cup {trail},
                    !.out = @ \o <<trail>>
                              \o (IF io.last # 0
                                  THEN bvar(distance_back(io.off, io.last))
                                  ELSE << >>)
                              \o (IF len # -1 THEN bvar(len) ELSE << >>)
                              \o (IF io.count > 1 THEN CheckValue(0, io.check, 4)
                                  ELSE << >>)
                              \o (IF trail # BR_CONTENT_TRAIL + 7 THEN <<trail>>
                                  ELSE << >>)]
    /\ Framing

Read(st, b) == [st EXCEPT !.pc = "done", !.status = b.code, !.outsegs = b.segs]

\* broad reads what braid wrote.
broad_out ==
    /\ io.pc = "broad"
    /\ io' = Read(io, broad(io.out))
    /\ Framing

NextBraid ==
    \/ brand_wrap
    \/ given_file
    \/ missing_file
    \/ main_start
    \/ main_scan
    \/ main_scan_loop
    \/ main_copy
    \/ main_length
    \/ main_cleanup
    \/ main_trailer
    \/ broad_out

SpecBraid == InitBraid /\ [][NextBraid]_vars

(***************************************************************************)
(* Properties of yeast().                                                  *)
(***************************************************************************)
Returned == pc = "returned"

\* The output bytes produced and the input bytes consumed so far.
Produced == IF s.null THEN 0 ELSE s.got
Consumed == IF s.null THEN 0 ELSE arg.len - s.slen

\* Control is between the acceptance of MLEN and the end of the meta-block.
InBlock == pc \in {"mb_unc", "mb_header", "h_params", "h_ntreesd", "h_alloc",
                   "h_code", "prefix", "p_clc", "p_len", "command", "literal",
                   "copy"}

\* C1: with cmp = 0 and allocations succeeding, yeast() returns 0, 2 or 3:
\* it never returns 4, never fails an assert() (abort), and never writes the
\* output beyond its allocation.
C1_NoneOfAbortOrMismatch ==
    (~arg.cmp /\ heap.fail = 0) =>
        /\ pc # "abort"
        /\ (Returned => ret.code \in {0, 2, 3})
        /\ (~s.null => s.got <= s.cap)

\* C2: on every non-zero return, *got is the number of output bytes produced
\* so far and *len the number of input bytes consumed so far.
C2_FailureReportsProgress ==
    (Returned /\ ret.code # 0) => (ret.got = Produced /\ ret.len = Consumed)

\* C3: in non-compare mode, whenever yeast() returns with *got zero, *dest is
\* NULL.
C3_NullDestWhenEmpty ==
    (Returned /\ ~arg.cmp /\ ret.got = 0) => ret.dest = "NULL"

\* C4: in compare mode, when a mismatch with the expected data at byte index
\* i ends the call with status 4, the *got reported is exactly i.
C4_MismatchIndexExact ==
    (Returned /\ ret.code = 4 /\ gh.mis >= 0) => ret.got = gh.mis

\* C5: in compare mode the expected buffer is never written, reallocated or
\* freed, *dest is unchanged on return, and a meta-block is entered only if
\* its MLEN keeps the output within the expected length (else status 4,
\* before any allocation of an output).
C5_CompareLeavesBuffer ==
    (arg.cmp /\ ~s.null) =>
        /\ s.buf = arg.expect
        /\ s.destid = 0
        /\ s.dest \in {"caller", "gotptr"}
        /\ (InBlock => s.got + mb.mlen <= s.have)
        /\ (Returned => ret.dest = arg.dest0)

\* A compare that matched a first meta-block and was then ended with status 4
\* by the MLEN of a later one.
C5_Witness ==
    /\ arg.cmp
    /\ Returned
    /\ ret.code = 4
    /\ gh.mis = -1
    /\ ret.got > 0

\* C8: when yeast() returns, every prefix code array allocated for a
\* meta-block header has been freed (only the output returned to the caller
\* is still allocated).
C8_CodeArraysFreed ==
    Returned => heap.live \subseteq {s.destid}

\* C9: a length field with more units than needed (MNIBBLES 5 or 6 with the
\* top nibble of MLEN-1 zero, MSKIPBYTES 2 or 3 with the top byte of
\* MSKIPLEN-1 zero) is rejected with status 3.
C9_LeadingUnitsRejected ==
    LET f == gh.field
        unit == IF f.kind = "mlen" THEN 16 ELSE 256
        least == IF f.kind = "mlen" THEN 4 ELSE 1
    IN  (f.kind # "none" /\ f.units > least
            /\ f.stored \div (unit ^ (f.units - 1)) = 0)
        => (pc \in {"always", "returned"} /\ err = 3)

\* C10: the distance ring never holds a distance of zero or a wrapped-around
\* one, and no copy from the output is made with such a distance.
C10_DistancePositive ==
    ~s.null =>
        /\ \A k \in 1..4 : s.ring[k] >= 1
        /\ (mb.how = "window" => mb.dist >= 1)

\* The state where braid has written its output and broad has read it.
BraidDone == io.pc = "done"
\* Every file given to braid is valid with a complete chain of distances.
AllValid == \A k \in 1..Len(io.valid) : io.valid[k]

\* C6: when every file given to braid is a valid .br file with a complete
\* back-chain, broad accepts the file braid wrote with status 0, and the
\* brotli segments of that file are the segments of the inputs, in order.
C6_BraidOutputValid ==
    (BraidDone /\ AllValid) => (io.status = 0 /\ io.outsegs = io.segs)

\* C7: every content-mask, extra-mask and trailer-mask byte that wrap(),
\* copy() and main() have written has even parity.
C7_MasksEvenParity == \A m \in io.masks : parity(m) = 0

\* C11: the distance ring (ring[] and ring_ptr) changes in a step of the
\* decoder if and only if the step decoded a distance symbol other than 0 whose
\* distance is at most min(got, wsize); then ring_ptr advanced by one modulo 4
\* and the new slot holds that distance.  Symbol 0, the implicit last distance,
\* dictionary references and header decoding leave the ring alone.
RingStored ==
    /\ gh.d.kind = "sym"
    /\ gh.d.sym # 0
    /\ ~Greater(gh.d.dist, gh.d.max)

C11_RingUpdate ==
    [][pc # "new_state" =>
         /\ (pc = "copy" /\ gh'.d.kind # "none")
               => gh'.d.max = Min(s.got, s.wsize)
         /\ (<<s.ring, s.ring_ptr>>' # <<s.ring, s.ring_ptr>>)
               <=> (pc = "copy" /\ RingStored')
         /\ (pc = "copy" /\ RingStored')
               => /\ s'.ring_ptr = (s.ring_ptr + 1) % 4
                  /\ s'.ring = [s.ring EXCEPT ![s'.ring_ptr + 1] = gh'.d.dist]]_vars

\* A distance was stored in the second meta-block of a stream whose ring
\* already held a distance of the first.
C11_Witness ==
    /\ RingStored
    /\ pc \in {"command", "always"}
    /\ s.ring[s.ring_ptr + 1] = gh.d.dist
    /\ s.ring_ptr = 1

\* The sum over i of count[i] * 2^(MAXBITS - i), and the number of symbols, of
\* a table.
RECURSIVE KraftFrom(_, _)
KraftFrom(count, i) ==
    IF i > MAXBITS THEN 0
    ELSE count[i] * Pow2(MAXBITS - i) + KraftFrom(count, i + 1)
RECURSIVE TotalFrom(_, _)
TotalFrom(count, i) ==
    IF i > MAXBITS THEN 0 ELSE count[i] + TotalFrom(count, i + 1)

CompleteOrSingle(tab) ==
    \/ KraftFrom(tab.count, 0) = Pow2(MAXBITS)
    \/ tab.count[0] = 1 /\ TotalFrom(tab.count, 0) = 1

\* The tables built so far: block type and block count codes, the arrays of
\* prefix codes, and the code length code of a prefix() call under way.
BuiltTables ==
    ({s.blk[c].types : c \in {"lit", "iac", "dist"}} \ {NoTab})
    \cup ({s.blk[c].count : c \in {"lit", "iac", "dist"}} \ {NoTab})
    \cup UNION {{s.code[c].t[k] : k \in 1..Len(s.code[c].t)} :
                   c \in {"lit", "iac", "dist"}}
    \cup (IF pc = "p_len" THEN {px.code} ELSE {})

\* C12: every prefix code table built while decoding is complete (the sum of
\* count[i] * 2^(15 - i) is 2^15) or is the single-symbol code with
\* count[0] = 1 and one symbol in all.
C12_TablesComplete == \A tab \in BuiltTables : CompleteOrSingle(tab)

\* metablock() returns without an error from a meta-block that has a length.
MbCompletes ==
    /\ pc \in {"mb_unc", "command", "literal", "copy"}
    /\ pc' \in {"metablock", "always"}
    /\ err' = 0

\* C13: a meta-block that completes without error adds exactly MLEN to got;
\* an insert length, a copy length or a dictionary word longer than what is
\* left of MLEN gives status 3; and when the inserts reach MLEN the meta-block
\* ends there, the copy length unused and no distance read.
C13_MlenExact ==
    [][/\ MbCompletes => s'.got = gh'.field.got + gh'.field.stored + 1
       /\ (pc = "command" /\ gh'.cmd.kind = "iac"
              /\ gh'.cmd.insert > gh'.cmd.mlen)
            => (pc' = "always" /\ err' = 3)
       /\ (pc = "copy" /\ gh'.d.kind # "none" /\ gh'.d.len > mb.mlen)
            => (pc' = "always" /\ err' = 3)
       /\ (pc \in {"command", "literal"} /\ pc' \notin {"abort", "always"}
              /\ mb'.insert = 0 /\ mb'.mlen = 0)
            => (MbCompletes /\ gh' = [gh EXCEPT !.cmd = gh'.cmd, !.out = gh'.out])
       /\ pc' = "copy" => mb'.mlen > 0]_vars

\* A compressed meta-block has ended at its last insert with a copy length
\* left unused, the output longer by MLEN.
C13_Witness ==
    /\ pc \in {"metablock", "always"}
    /\ err = 0
    /\ gh.cmd.kind = "iac"
    /\ gh.field.kind = "mlen"
    /\ mb.insert = 0
    /\ mb.mlen = 0
    /\ mb.copy > 0
    /\ gh.cmd.insert > 0
    /\ gh.d.kind # "none"
    /\ s.got = gh.field.got + gh.field.stored + 1

\* WBITS as the format describes it, from the bit fields w read.
WbitsRead(w) == IF w[1] = 0 THEN 16
                ELSE IF w[2] # 0 THEN 17 + w[2]
                ELSE IF w[3] # 0 THEN 8 + w[3] ELSE 17

\* C18: the preamble gives 16 for a first bit 0, 17 + b1 for non-zero b1,
\* 8 + b2 for non-zero b2 and 17 otherwise; 9 is rejected with status 3, and
\* every stream past the preamble has wbits in 10..24 and
\* wsize = 2^wbits - 16.
C18_Wbits ==
    [][/\ (pc = "wbits" /\ gh'.wb # << >>)
            => /\ s'.wbits = WbitsRead(gh'.wb)
               /\ Len(gh'.wb) = (IF gh'.wb[1] = 0 THEN 1
                                 ELSE IF gh'.wb[2] # 0 THEN 2 ELSE 3)
               /\ (s'.wbits = 9) <=> (pc' = "always" /\ err' = 3)
               /\ (s'.wbits # 9) <=> (pc' = "metablock")
       /\ (pc = "wbits" /\ pc' = "metablock") => gh'.wb # << >>
       /\ pc' \in {"metablock", "command", "literal", "copy"}
            => /\ s'.wbits \in 10..24
               /\ s'.wsize = Pow2(s'.wbits) - 16]_vars

C18_Witness ==
    /\ gh.wb = <<1, 0, 7>>
    /\ s.wbits = 15
    /\ s.wsize = 32752
    /\ pc = "metablock"

\* C20: a distance symbol d in 0..3 yields ring[(ring_ptr - d) & 3], for every
\* ring_ptr: symbol 0 the distance stored last, 1 the one before it, 2 the
\* one before that, and 3 the fourth last.
C20_RingRead ==
    [][(pc = "copy" /\ gh'.d.kind = "sym" /\ gh'.d.sym \in 0..3)
          => /\ gh'.d.dist = s.ring[((s.ring_ptr + 4 - gh'.d.sym) % 4) + 1]
             /\ gh'.d.dist = gh.hist[gh'.d.sym + 1]]_vars

\* After three distances were stored, symbol 3 read the distance stored
\* before them (the 4 the ring starts with), and it was stored again.
C20_Witness ==
    /\ gh.d.kind = "sym"
    /\ gh.d.sym = 3
    /\ gh.d.dist = 4
    /\ s.ring_ptr = 3
    /\ gh.hist[1] = 4
    /\ gh.hist[2] # 4
    /\ gh.hist[3] # 4
    /\ gh.hist[4] # 4

(***************************************************************************)
(* context_map().  The third specification: a map of MapLen entries for    *)
(* trees prefix codes is read, one symbol of the map code per step, then   *)
(* the inverse move-to-front transform runs, one entry per step.           *)
(***************************************************************************)
\* The four bits after the first bit of RLEMAX, and the outcome of prefix()
\* for the map code: a code, the end of the input (2) or an invalid
\* descriptor (3).
InRle == {0, 1, 2, 15}
InMapCode == {0, 2, 3}

\* (size_t)1 << rlemax > len
rlemax_too_large(rlemax, len) == Pow2(rlemax) > len

\* throw(code, ...) in context_map().
map_throw(code, why) == cmap' = [cmap EXCEPT !.pc = "thrown", !.err = code, !.why = why]

\* A variant of move_to_front() that leaves the table as it is.
move_to_front_never(table, sym) == table

\* The table after the entry at index sym (from 0) moved to its front.
move_to_front(table, sym) ==
    [k \in 1..Len(table) |->
        IF k = 1 THEN table[sym + 1]
        ELSE IF k <= sym + 1 THEN table[k - 1]
        ELSE table[k]]

InitMap ==
    /\ pc = "context_map"
    /\ fam = "hdr"
    /\ arg = [cmp |-> FALSE, len |-> 0, got0 |-> CallerGot, dest0 |-> "caller",
              expect |-> << >>]
    /\ s = NoState
    /\ mb = NoMb
    /\ px = NoPx
    /\ heap = [live |-> {}, calls |-> 0, fail |-> 0]
    /\ err = 0
    /\ ret = [code |-> -1, dest |-> arg.dest0, got |-> arg.got0, len |-> arg.len]
    /\ gh = NoGh
    /\ io = NoIo
    /\ \E trees \in InTrees :
          cmap = [NoCm EXCEPT !.pc = "rlemax", !.trees = trees, !.len = MapLen]

\* RLEMAX and the map code, prefix(s, &code, rlemax + trees).
map_rlemax ==
    /\ cmap.pc = "rlemax"
    /\ \E ok \in {TRUE, FALSE}, b \in InBit, r \in InRle, c \in InMapCode :
          LET rlemax == IF b # 0 THEN 1 + r ELSE 0
          IN  IF ~ok THEN map_throw(2, "end")
              ELSE IF rlemax_too_large(rlemax, cmap.len)
              THEN cmap' = [cmap EXCEPT !.pc = "thrown", !.err = 3,
                                        !.why = "rlemax", !.rlemax = rlemax]
              ELSE IF c # 0
              THEN cmap' = [cmap EXCEPT !.pc = "thrown", !.err = c,
                                        !.why = IF c = 2 THEN "end" ELSE "descriptor",
                                        !.rlemax = rlemax]
              ELSE cmap' = [cmap EXCEPT !.pc = "read", !.rlemax = rlemax, !.n = 0]
    /\ UNCHANGED <<pc, fam, arg, s, mb, px, heap, err, ret, gh, io>>

\* One turn of the loop that reads the map: a symbol of the map code (an
\* alphabet of rlemax + trees symbols) and, for a run of zeros, its extra
\* bits; either read may meet the end of the input.
map_read ==
    /\ cmap.pc = "read"
    /\ \E ok \in {TRUE, FALSE}, sym \in 0..cmap.rlemax + cmap.trees - 1 :
       \E xb \in (IF sym # 0 /\ sym <= cmap.rlemax THEN InExtra(sym) ELSE {0}) :
          LET zeros == Pow2(sym) + xb
              map == IF sym = 0 THEN Append(cmap.map, 0)
                     ELSE IF sym <= cmap.rlemax
                     THEN cmap.map \o [k \in 1..zeros |-> 0]
                     ELSE Append(cmap.map, sym - cmap.rlemax)
          IN  IF ~ok THEN map_throw(2, "end")
              ELSE IF sym # 0 /\ sym <= cmap.rlemax /\ cmap.n + zeros > cmap.len
              THEN map_throw(3, "run")
              ELSE cmap' = [cmap EXCEPT
                              !.map = map,
                              !.n = Len(map),
                              !.in = IF Len(map) < cmap.len THEN @ ELSE map,
                              !.pc = IF Len(map) < cmap.len THEN "read" ELSE "imtf"]
    /\ UNCHANGED <<pc, fam, arg, s, mb, px, heap, err, ret, gh, io>>

\* "if (bits(s, 1))" and the initialisation of table[].
imtf_start ==
    /\ cmap.pc = "imtf"
    /\ \E ok \in {TRUE, FALSE}, b \in InBit :
          cmap' = IF ~ok THEN [cmap EXCEPT !.pc = "thrown", !.err = 2, !.why = "end"]
                ELSE IF b = 0 THEN [cmap EXCEPT !.pc = "done", !.flag = 0]
                ELSE [cmap EXCEPT !.pc = "imtf_loop", !.flag = 1, !.n = 0,
                                !.table = [k \in 1..cmap.trees |-> k - 1]]
    /\ UNCHANGED <<pc, fam, arg, s, mb, px, heap, err, ret, gh, io>>

\* One turn of the loop over the map.
imtf_step ==
    /\ cmap.pc = "imtf_loop"
    /\ LET sym == cmap.map[cmap.n + 1]
           n == cmap.n + 1
       IN  IF ~(sym < cmap.trees)
           THEN cmap' = [cmap EXCEPT !.pc = "abort"]
           ELSE cmap' = [cmap EXCEPT
                         !.map[cmap.n + 1] = cmap.table[sym + 1],
                         !.table = IF sym # 0 THEN move_to_front(cmap.table, sym)
                                   ELSE @,
                         !.n = n,
                         !.pc = IF n < Len(cmap.map) THEN "imtf_loop" ELSE "done"]
    /\ UNCHANGED <<pc, fam, arg, s, mb, px, heap, err, ret, gh, io>>

NextMap ==
    \/ map_rlemax
    \/ map_read
    \/ imtf_start
    \/ imtf_step

SpecMap == InitMap /\ [][NextMap]_vars

\* The transform has run over the whole of the map in.
Imtf(in, trees) ==
    cmap.pc = "done" /\ cmap.flag = 1 /\ cmap.trees = trees /\ cmap.in = in

\* C14 as stated: with trees = 3 the inverse move-to-front transform maps
\* [0, 1, 2, 0] to [0, 1, 2, 2] and [1, 0, 2, 1] to [1, 1, 2, 0].
C14_ImtfExamples ==
    /\ Imtf(<<0, 1, 2, 0>>, 3) => cmap.map = <<0, 1, 2, 2>>
    /\ Imtf(<<1, 0, 2, 1>>, 3) => cmap.map = <<1, 1, 2, 0>>

\* C14 amended: with trees = 3 the inverse move-to-front transform maps
\* [0, 1, 2, 0] to [0, 1, 2, 2] and [1, 0, 2, 1] to [1, 1, 2, 1].
C14_ImtfAmended ==
    /\ Imtf(<<0, 1, 2, 0>>, 3) => cmap.map = <<0, 1, 2, 2>>
    /\ Imtf(<<1, 0, 2, 1>>, 3) => cmap.map = <<1, 1, 2, 1>>

\* The transform has run over the second map of the claim.
C14_Witness == Imtf(<<1, 0, 2, 1>>, 3) /\ cmap.map = <<1, 1, 2, 1>>

(***************************************************************************)
(* Bidirectional variable-length integers.  The fourth specification:      *)
(* bvar() writes a number between the bytes before and after it, then      *)
(* getbvar() reads it forwards from its first byte and getrbvar() reads it *)
(* backwards from the position after its last byte.                        *)
(***************************************************************************)
MaxNum == 130
InNum == 0..MaxNum
         \cup {16383, 16384, 16385, 2097151, 2097152, 268435455, 268435456}
InAround == {<< >>, <<0>>, <<128>>, <<127, 255>>}

NoRead == [ok |-> FALSE, code |-> 0, val |-> 0, next |-> 0]

InitVar ==
    /\ pc = "bvar"
    /\ fam = "hdr"
    /\ \E num \in InNum, before \in InAround, after \in InAround :
          arg = [num |-> num, before |-> before, after |-> after]
    /\ s = NoState
    /\ mb = NoMb
    /\ px = NoPx
    /\ heap = [live |-> {}, calls |-> 0, fail |-> 0]
    /\ err = 0
    /\ ret = [file |-> arg.before, at |-> 0, end |-> 0, forward |-> FALSE,
              fwd |-> NoRead, backward |-> FALSE, bwd |-> NoRead]
    /\ gh = NoGh
    /\ io = NoIo
    /\ cmap = NoCm

\* bvar(num, out), then the bytes that follow it in the file.
bvar_write ==
    /\ pc = "bvar"
    /\ pc' = "read"
    /\ ret' = [ret EXCEPT !.file = @ \o bvar(arg.num) \o arg.after,
                          !.at = Len(arg.before),
                          !.end = Len(arg.before) + Len(bvar(arg.num))]
    /\ UNCHANGED <<fam, arg, s, mb, px, heap, err, gh, io, cmap>>

\* getbvar(in) with the file positioned at the first byte written.
getbvar_read ==
    /\ pc = "read"
    /\ ~ret.forward
    /\ ret' = [ret EXCEPT !.forward = TRUE, !.fwd = getbvar(ret.file, ret.at)]
    /\ UNCHANGED <<pc, fam, arg, s, mb, px, heap, err, gh, io, cmap>>

\* getrbvar(in) with the file positioned after the last byte written.
getrbvar_read ==
    /\ pc = "read"
    /\ ~ret.backward
    /\ ret' = [ret EXCEPT !.backward = TRUE, !.bwd = getrbvar(ret.file, ret.end)]
    /\ UNCHANGED <<pc, fam, arg, s, mb, px, heap, err, gh, io, cmap>>

NextVar ==
    \/ bvar_write
    \/ getbvar_read
    \/ getrbvar_read

SpecVar == InitVar /\ [][NextVar]_vars

\* C15: the bytes bvar(num) writes have the high bit in the first and the
\* last byte only, and are read back as num by getbvar() and by getrbvar(),
\* each consuming exactly the bytes written.
C15_BvarRoundTrip ==
    pc = "read" =>
      /\ \A k \in ret.at + 1..ret.end :
            (ret.file[k] >= 128) <=> (k = ret.at + 1 \/ k = ret.end)
      /\ ret.end >= ret.at + 2
      /\ ret.forward => /\ ret.fwd.ok
                        /\ ret.fwd.val = arg.num
                        /\ ret.fwd.next = ret.end
      /\ ret.backward => /\ ret.bwd.ok
                         /\ ret.bwd.val = arg.num
                         /\ ret.bwd.next = ret.at

\* A number of three bytes, between other bytes, was read in both directions.
C15_Witness ==
    /\ pc = "read"
    /\ ret.forward
    /\ ret.backward
    /\ ret.end = ret.at + 3
    /\ arg.before = <<127, 255>>
    /\ arg.after = <<128>>
    /\ ret.fwd.val = ret.bwd.val

(***************************************************************************)
(* Properties of braid's trailer and of the files it skips.                *)
(***************************************************************************)
\* The final trailer of file f, read backwards as scan() reads it: whether it
\* carries a total uncompressed length, and that length.
TrailLen(f) ==
    LET m == LastNonZero(f, Len(f))
        trail == f[m + 1]
        p1 == IF And(trail, BR_CONTENT_CHECK) # 7 THEN m - Pow2(And(trail, 3))
              ELSE m
    IN  IF And(trail, BR_CONTENT_LEN) # 0
        THEN [has |-> TRUE, val |-> getrbvar(f, p1).val]
        ELSE [has |-> FALSE, val |-> 0]

RECURSIVE SumLen(_, _)
SumLen(files, k) ==
    IF k > Len(files) THEN 0 ELSE TrailLen(files[k]).val + SumLen(files, k + 1)

AllHaveLen == \A k \in 1..Len(io.files) : TrailLen(io.files[k]).has

\* C16: when braid was given files and the trailer of each carries a total
\* uncompressed length, the trailer braid writes carries one, the sum of
\* those lengths; files without a brotli segment count like the others.
C16_TrailerLength ==
    (io.pc \in {"broad", "done"} /\ Len(io.files) > 0 /\ AllHaveLen)
        => io.len = SumLen(io.files, 1)

\* C17: a file scan() throws on is skipped as a whole: the output and the
\* running state (off, last, count, len, the check of checks) are what they
\* were before the file, the files after it are still merged, and the exit
\* status is 1.
C17_ScanThrowSkips ==
    /\ (io.pc = "cleanup" /\ io.k \in io.skipped) => Running(io) = io.before
    /\ io.skipped # {} => io.pc # "crash"
    /\ io.pc \in {"trailer", "broad", "done"}
         => /\ \A k \in 1..Len(io.files) : k \in io.skipped \cup io.merged
            /\ io.skipped # {} => io.ret = 1

(***************************************************************************)
(* brand's options.  The fifth specification: wrap() interprets option     *)
(* characters one by one, any number of them in any order, then writes the *)
(* file; broad and braid derive the length of the check value from the     *)
(* content mask written.                                                   *)
(***************************************************************************)
\* '1' '2' '4' '8' 'c' 's' 'x' 'n' 'u' 'r' 'b' 'm' 'f', and 'z' for the
\* characters the switch has no case for.
InOptChar == {49, 50, 52, 56, 99, 115, 120, 110, 117, 114, 98, 109, 102, 122}

\* A variant of the limit on check_len that leaves it as it is.
clamp_never(len, max) == len

\* if (check_len > max) check_len = max;
clamp(len, max) == IF len > max THEN max ELSE len

\* One turn of the option loop of wrap() for the character ch.
wrap_option(o, ch) ==
    IF ch \in {49, 50, 52, 56}
    THEN LET n == ch - 48
         IN  IF o.check_type = 0
             THEN [o EXCEPT !.check_len = n,
                            !.check_type = IF n = 8 THEN 1 ELSE 0]
             ELSE IF o.check_type = 1
             THEN [o EXCEPT !.check_len = n,
                            !.check_type = IF n < 8 THEN 0 ELSE 1]
             ELSE IF o.check_type = 2
             THEN [o EXCEPT !.check_len = IF n = 8 THEN 4 ELSE n]
             ELSE [o EXCEPT !.check_len = 32]
    ELSE IF ch = 99
    THEN [o EXCEPT !.check_len = clamp(o.check_len, 4),
                   !.check_type = 2, !.set = 1]
    ELSE IF ch = 115
    THEN [o EXCEPT !.check_type = 3, !.check_len = 32, !.set = 1]
    ELSE IF ch = 120
    THEN [o EXCEPT !.check_len = clamp(o.check_len, 8),
                   !.check_type = IF clamp(o.check_len, 8) < 8 THEN 0 ELSE 1,
                   !.set = 1]
    ELSE IF ch = 110 THEN [o EXCEPT !.tail = 0]
    ELSE IF ch = 117 THEN [o EXCEPT !.tail = BR_CONTENT_LEN]
    ELSE IF ch = 114 THEN [o EXCEPT !.tail = BR_CONTENT_OFF]
    ELSE IF ch = 98 THEN [o EXCEPT !.tail = BR_CONTENT_LEN + BR_CONTENT_OFF]
    ELSE IF ch = 109 THEN [o EXCEPT !.mod = 1]
    ELSE IF ch = 102 THEN [o EXCEPT !.file = 1]
    ELSE o

NoWritten == [file |-> << >>, check_at |-> 0, tail_at |-> 0,
              broad |-> 0, braid |-> 0, scan |-> Thrown(-1, FALSE, << >>)]

\* A name long enough for the offset in the trailer to pass 127.
MaxNameLen == 130
InLongName == {[k \in 1..MaxNameLen |-> 102]}

\* The defaults of wrap(): all 8 bytes of XXH64, length and offset in the
\* trailer, no modification time and no file name.
InitOpt ==
    /\ pc = "opt"
    /\ fam = "hdr"
    /\ \E st \in InStream, tm \in InTime, nm \in InName \cup InLongName :
          arg = [check_type |-> 1, check_len |-> 8, set |-> 0,
                 tail |-> BR_CONTENT_LEN + BR_CONTENT_OFF, mod |-> 0, file |-> 0,
                 time |-> tm, name |-> nm, brotli |-> st.brotli, un |-> st.un]
    /\ s = NoState
    /\ mb = NoMb
    /\ px = NoPx
    /\ heap = [live |-> {}, calls |-> 0, fail |-> 0]
    /\ err = 0
    /\ ret = NoWritten
    /\ gh = NoGh
    /\ io = NoIo
    /\ cmap = NoCm

\* "switch (*opt)" and "opt++".
wrap_opt ==
    /\ pc = "opt"
    /\ \E ch \in InOptChar : arg' = wrap_option(arg, ch)
    /\ UNCHANGED <<pc, fam, s, mb, px, heap, err, ret, gh, io, cmap>>

\* The end of the options: wrap() writes the file.
wrap_write ==
    /\ pc = "opt"
    /\ pc' = "written"
    /\ LET w == wrap(arg)
       IN  ret' = [ret EXCEPT !.file = w.file, !.check_at = w.check_at,
                              !.tail_at = w.tail_at]
    /\ UNCHANGED <<fam, arg, s, mb, px, heap, err, gh, io, cmap>>

\* broad: the number n of check value bytes it compares, from the content
\* mask (the byte after the signature, without its parity bit).
broad_check ==
    /\ pc = "written"
    /\ ret.broad = 0
    /\ LET mask == ret.file[5] % 128
       IN  ret' = [ret EXCEPT !.broad = IF And(mask, BR_CONTENT_CHECK) = 7 THEN 32
                                        ELSE Pow2(And(mask, 3))]
    /\ UNCHANGED <<pc, fam, arg, s, mb, px, heap, err, gh, io, cmap>>

\* braid: the number n of bytes copy() takes as the check value.
braid_copy ==
    /\ pc = "written"
    /\ ret.braid = 0
    /\ LET mask == ret.file[5] % 128
       IN  ret' = [ret EXCEPT !.braid = IF And(mask, BR_CONTENT_CHECK) = 7 THEN 32
                                        ELSE Pow2(And(mask, 3))]
    /\ UNCHANGED <<pc, fam, arg, s, mb, px, heap, err, gh, io, cmap>>

\* braid: scan() of the file written.
braid_scan ==
    /\ pc = "written"
    /\ ret.scan.code = -1
    /\ ret' = [ret EXCEPT !.scan = scan(ret.file)]
    /\ UNCHANGED <<pc, fam, arg, s, mb, px, heap, err, gh, io, cmap>>

NextOpt ==
    \/ wrap_opt
    \/ wrap_write
    \/ broad_check
    \/ braid_copy
    \/ braid_scan

SpecOpt == InitOpt /\ [][NextOpt]_vars

\* C19: after any sequence of options the check is XXH32 of 1, 2 or 4 bytes,
\* XXH64 of 8, CRC-32C of 1, 2 or 4, or SHA-256 of 32 bytes, and the number
\* of check bytes written after the brotli stream is the length the readers
\* derive from the content mask written.
C19_CheckOptions ==
    /\ <<arg.check_type, arg.check_len>>
         \in ({0} \X {1, 2, 4}) \cup {<<1, 8>>} \cup ({2} \X {1, 2, 4})
             \cup {<<3, 32>>}
    /\ pc = "written"
         => /\ ret.tail_at - ret.check_at = arg.check_len
            /\ ret.broad # 0 => ret.broad = ret.tail_at - ret.check_at
            /\ ret.braid # 0 => ret.braid = ret.tail_at - ret.check_at
            /\ KindOf(ret.file[5] % 128) = arg.check_type

\* A 2-byte CRC-32C was written and both readers took the length of the
\* check value from the mask.
C19_Witness ==
    /\ pc = "written"
    /\ arg.check_type = 2
    /\ arg.check_len = 2
    /\ arg.set = 1
    /\ ret.broad = 2
    /\ ret.braid = 2

(***************************************************************************)
(* Block switching.  The sixth specification: a meta-block with num block  *)
(* types of one category, from the state its header leaves (type 0, last   *)
(* 1, the first block length), through any sequence of block switches.     *)
(***************************************************************************)
MaxTypes == 4
InBlockLen == {1, 2}

\* A variant of the block type a switch selects in which the next type does
\* not wrap around.
new_type_no_wrap(n, type, last, num) ==
    IF n > 1 THEN n - 2 ELSE IF n # 0 THEN type + 1 ELSE last

\* n > 1 ? n - 2 : n ? (type + 1) % num : last
new_type(n, type, last, num) ==
    IF n > 1 THEN n - 2 ELSE IF n # 0 THEN (type + 1) % num ELSE last

NoSw == [c |-> "none", n |-> 0, type |-> 0, last |-> 0]

InitSwitch ==
    /\ pc = "block"
    /\ fam = "hdr"
    /\ \E c \in {"lit", "iac", "dist"}, num \in 2..MaxTypes, left \in InBlockLen :
          /\ arg = [c |-> c]
          /\ s = [NoState EXCEPT !.null = FALSE,
                                 !.blk[c] = [NoBlk EXCEPT !.num = num, !.type = 0,
                                                          !.last = 1, !.left = left]]
    /\ mb = NoMb
    /\ px = NoPx
    /\ heap = [live |-> {}, calls |-> 0, fail |-> 0]
    /\ err = 0
    /\ ret = NoSw
    /\ gh = NoGh
    /\ io = NoIo
    /\ cmap = NoCm

\* "if (left == 0) { ... }": the block switch of category c.  n is the symbol
\* decoded with the block type code (an alphabet of num + 2 symbols), left the
\* block length read; either read may meet the end of the input.  ret records
\* the symbol and the types before the switch.
block_switch(c) ==
    /\ pc = "block"
    /\ arg.c = c
    /\ s.blk[c].left = 0
    /\ LET b == s.blk[c]
       IN  \E ok \in {TRUE, FALSE}, n \in 0..b.num + 1, left \in InBlockLen :
              IF ~ok THEN throw(2, s) /\ ret' = NoSw
              ELSE /\ s' = [s EXCEPT !.blk[c].last = b.type,
                                     !.blk[c].type = new_type(n, b.type, b.last, b.num),
                                     !.blk[c].left = left]
                   /\ ret' = [c |-> c, n |-> n, type |-> b.type, last |-> b.last]
                   /\ pc' = "block"
                   /\ err' = 0
    /\ UNCHANGED <<io, cmap, fam, arg, mb, px, heap, gh>>

\* "left--": one symbol of the current block of category c is decoded.
block_use(c) ==
    /\ pc = "block"
    /\ arg.c = c
    /\ s.blk[c].left # 0
    /\ s' = [s EXCEPT !.blk[c].left = @ - 1]
    /\ ret' = NoSw
    /\ UNCHANGED <<io, cmap, pc, fam, arg, mb, px, heap, err, gh>>

NextSwitch ==
    \/ \E c \in {"lit", "iac", "dist"} : block_switch(c)
    \/ \E c \in {"lit", "iac", "dist"} : block_use(c)

SpecSwitch == InitSwitch /\ [][NextSwitch]_vars

\* C21: with N >= 2 block types, from current 0 and previous 1, after any
\* sequence of switches the current and the previous type are in 0..N-1 and
\* the previous type is the one that was current before the latest switch; a
\* switch symbol t >= 2 selects t - 2, 1 selects (current + 1) mod N and 0
\* selects the previous type.
C21_BlockSwitch ==
    LET b == s.blk[arg.c]
    IN  /\ b.type \in 0..b.num - 1
        /\ b.last \in 0..b.num - 1
        /\ ret.c # "none"
             => /\ b.last = ret.type
                /\ ret.n >= 2 => b.type = ret.n - 2
                /\ ret.n = 1 => b.type = (ret.type + 1) % b.num
                /\ ret.n = 0 => b.type = ret.last

\* The last of three block types was current and symbol 1 selected type 0.
C21_Witness ==
    /\ ret.c = "dist"
    /\ ret.n = 1
    /\ ret.type = 2
    /\ s.blk["dist"].num = 3
    /\ s.blk["dist"].type = 0
    /\ s.blk["dist"].last = 2

\* C30: context_map() fails only for truncated input, an invalid descriptor
\* of the map code or a run of zeros that passes the map length: every RLEMAX
\* is accepted as long as the runs coded fit, and on success each of the len
\* entries is below trees, before and after the inverse move-to-front
\* transform.
C30_ContextMap ==
    /\ cmap.pc = "thrown" => cmap.why \in {"end", "descriptor", "run"}
    /\ cmap.pc # "abort"
    /\ cmap.pc \in {"imtf", "imtf_loop", "done"}
         => /\ Len(cmap.in) = cmap.len
            /\ Len(cmap.map) = cmap.len
            /\ \A k \in 1..cmap.len : cmap.in[k] < cmap.trees /\ cmap.map[k] < cmap.trees


(***************************************************************************)
(* Termination of yeast().  The machine of yeast() and the machine of      *)
(* context_map() run under one specification, and a rank of three natural  *)
(* numbers is shown to fall on every step: the bits of input not yet read, *)
(* the place in the code with the entries still to be produced, and the    *)
(* entries of the context map still to be produced.                        *)
(***************************************************************************)
\* The bits of input that bits() has not returned yet: s->len bytes of
\* s->next and s->left bits in s->bits (the whole input before new_state()).
InBits == IF s.null THEN 8 * arg.len ELSE 8 * s.slen + s.left

\* More than four times any MLEN (MLEN - 1 is read in at most six nibbles).
RankBase == 8 * Pow2(24)

\* The place in yeast(): the loops that may turn without reading a bit count
\* what they have left to produce (the symbols of the alphabet without a
\* length in prefix(), the bytes of the meta-block in the command loop).
PlaceRank ==
    CASE pc = "new_state" -> 2 * RankBase
      [] pc = "p_len" -> RankBase + 3 + (px.num - px.nsym)
      [] pc = "h_code" -> RankBase + 2
      [] pc = "h_alloc" -> RankBase + 1
      [] pc = "command" -> 10 + 4 * mb.mlen + 3
      [] pc = "literal" -> 10 + 4 * (mb.mlen + mb.insert) + 2
      [] pc = "copy" -> 10 + 4 * mb.mlen + 1
      [] pc \in {"wbits", "mb_meta", "mb_len", "mb_unc", "mb_header",
                 "h_params", "h_ntreesd", "p_clc"} -> 7
      [] pc = "prefix" -> 6
      [] pc = "metablock" -> 5
      [] pc = "always" -> 1
      [] OTHER -> 0

\* The place in context_map(): the entries of the map not yet read, then the
\* entries the inverse move-to-front transform has not yet replaced.
MapRank ==
    CASE cmap.pc = "rlemax" -> 2 * cmap.len + 4
      [] cmap.pc = "read" -> 2 * cmap.len + 3 - cmap.n
      [] cmap.pc = "imtf" -> cmap.len + 2
      [] cmap.pc = "imtf_loop" -> cmap.len + 1 - cmap.n
      [] OTHER -> 0

InitLoops == InitYeast \/ InitMap

NextLoops == NextYeast \/ NextMap

SpecLoops == InitLoops /\ [][NextLoops]_vars

\* C22: yeast() terminates on every finite input.  Every step of yeast(),
\* of prefix() and of context_map() lowers the rank <<InBits, PlaceRank,
\* MapRank>> in the lexicographic order, and the three numbers never fall
\* below zero: a turn of the meta-block loop, of the command loop, of the
\* loop over the code lengths or of the loop over the map reads at least
\* one bit of input, or produces at least one byte, length or map entry, or
\* throws, so that no run has infinitely many steps.
C22_Terminates ==
    [][/\ InBits' >= 0 /\ PlaceRank' >= 0 /\ MapRank' >= 0
       /\ \/ InBits' < InBits
          \/ InBits' = InBits /\ PlaceRank' < PlaceRank
          \/ InBits' = InBits /\ PlaceRank' = PlaceRank /\ MapRank' < MapRank]_vars

\* The command loop went round with codes of one symbol each (no bit read
\* for the symbols) and copied a dictionary word that a transform had cut to
\* no byte at all.
C22_Witness ==
    /\ fam = "spin"
    /\ pc = "command"
    /\ gh.d.kind = "sym"
    /\ gh.d.len = 0
    /\ s.code["iac"].t[1].symbol = <<130>>
    /\ s.code["dist"].t[1].symbol = <<32>>


(***************************************************************************)
(* scan(): the walk back through the headers.                              *)
(***************************************************************************)
\* The offsets of a stack (top first) rise strictly from its top.
Rising(pos) == \A k \in 1..Len(pos) - 1 : pos[k] < pos[k + 1]

\* C23: scan() terminates on every file: each step of the back-chain goes
\* to a strictly smaller offset, until offset 4, also when the distance in
\* a header is zero; and when scan() succeeds the offsets it pushed rise
\* strictly from 4 to the offset of the trailer.
C23_ScanTerminates ==
    /\ io.pc # "scanning"
    /\ io.pc \in {"copy", "cleanup"} /\ io.k <= Len(io.files)
          => LET r == scan(io.files[io.k])
             IN  r.ok => /\ r.pos[1] = 4
                         /\ r.pos[Len(r.pos)] = r.at
                         /\ Rising(r.pos)


\* C24: every call of construct() has n < MAXSYMS, so that its assert()
\* holds: the call for the code length code (n = CODE_LENGTH_CODES) and the
\* call for the code itself, also when the code lengths of an insert and
\* copy code (704 symbols) go up to symbol 703.
C24_ConstructInRange == px.n < MAXSYMS


\* C25: in compare mode yeast() returns 0 only when the data decoded is the
\* whole of the data expected: as many bytes as *got gave, and every byte
\* the same (a proper prefix of the data expected is no success).
C25_CompareWhole ==
    (arg.cmp /\ Returned /\ ret.code = 0)
        => /\ ret.got = arg.got0
           /\ gh.out = arg.expect


\* The bytes of the meta-block still to come at a place of the command loop:
\* mlen, and at a literal the rest of the insert (taken off mlen already).
ToCome(place, m) == m.mlen + (IF place = "literal" THEN m.insert ELSE 0)

\* C26: every byte metablock() writes or compares is inside the output:
\* below the size of the allocation when not comparing, below s->have when
\* comparing; a copy from the window reads from got - dist, which is not
\* below 0; and in the command loop got and the bytes of the meta-block
\* still to come add up to the size reserved when the meta-block began.
C26_OutputInBounds ==
    [][/\ (~s.null /\ ~s'.null /\ s'.got > s.got)
             => s'.got <= (IF arg.cmp THEN s'.have ELSE s'.cap)
       /\ (pc = "copy" /\ gh'.d.kind # "none" /\ ~Greater(gh'.d.dist, gh'.d.max))
             => /\ gh'.d.dist >= 0
                /\ s.got - gh'.d.dist >= 0
       /\ pc' \in {"command", "literal", "copy"}
             => IF arg.cmp THEN s'.got + ToCome(pc', mb') <= s'.have
                ELSE s'.got + ToCome(pc', mb') = s'.cap]_vars

\* A copy from the window wrote the last bytes of the allocation.
C26_Witness ==
    /\ ~arg.cmp
    /\ pc = "always"
    /\ mb.how = "window"
    /\ gh.d.dist > 0
    /\ gh.d.len > 0
    /\ s.got = s.cap
    /\ s.got > gh.d.len


(***************************************************************************)
(* braid: the offsets copy() and main() keep and write.                    *)
(***************************************************************************)
\* C27: after every call of copy(), off is the number of bytes written so
\* far and last is the output offset of the header written by the call; a
\* header that is not the first one written has the OFF bit and, after its
\* mask, the forward integer of its output offset less the offset of the
\* header written before it; and the offset in the trailer is the output
\* offset of the trailer less last.
C27_Offsets ==
    [][/\ (io.pc = "copy" /\ io'.out # io.out)
             => /\ io'.off = Len(io'.out)
                /\ io'.last = Len(io.out)
                /\ io.last # 0
                      => /\ And(io'.out[Len(io.out) + 1], BR_CONTENT_OFF) # 0
                         /\ getvar(io'.out, Len(io.out) + 1).val
                               = Len(io.out) - io.last
       /\ (io.pc = "trailer" /\ io'.pc = "broad")
             => IF io.last # 0
                THEN /\ And(io'.out[Len(io.out) + 1], BR_CONTENT_OFF) # 0
                     /\ getbvar(io'.out, Len(io.out) + 1).val
                           = Len(io.out) - io.last
                ELSE And(io'.out[Len(io.out) + 1], BR_CONTENT_OFF) = 0]_vars

\* Two headers were written, the second one after the first, and then the
\* trailer with the distance back to the second.
C27_Witness ==
    /\ io.pc = "broad"
    /\ io.last > 4
    /\ io.off > io.last
    /\ And(io.out[io.last + 1], BR_CONTENT_OFF) # 0
    /\ getvar(io.out, io.last + 1).val = io.last - 4


\* C28: for every file given to braid, also one that cannot be opened and
\* one scan() throws on before the trailer is verified, the always block
\* of main() pops a stack that was set (the entries pushed for the file and
\* no others), closes a file that was opened, and so never ends in a crash.
C28_CleanupSafe ==
    /\ io.pc = "cleanup" => (io.set /\ io.k \notin io.missing)
    /\ io.pc # "crash"


\* C29: whatever the options, the file wrap() writes has the signature and
\* its one header at offset 4; its trailer mask is written again at the end
\* of the file exactly when the trailer has a length or an offset; the
\* offset, when it is there, is the offset of the trailer less 4; and then
\* scan() succeeds with the offsets 4 and that of the trailer, and no other.
C29_WrapScans ==
    pc = "written"
        => LET f == ret.file
               t == ret.tail_at
               tail == f[t + 1]
               fields == And(tail, BR_CONTENT_LEN + BR_CONTENT_OFF) # 0
           IN  /\ SubSeq(f, 1, 4) = BR_SIG
               /\ And(f[5], BR_CONTENT_TRAIL) = 0
               /\ And(tail, BR_CONTENT_TRAIL) # 0
               /\ And(tail, BR_CONTENT_LEN + BR_CONTENT_OFF) = arg.tail
               /\ IF fields THEN Len(f) > t + 1 /\ f[Len(f)] = tail
                  ELSE Len(f) = t + 1
               /\ And(tail, BR_CONTENT_OFF) # 0
                     => /\ getbvar(f, t + 1).ok
                        /\ getbvar(f, t + 1).val = t - 4
                        /\ ret.scan.code # -1
                              => ret.scan.ok /\ ret.scan.pos = <<4, t>>

\* A file with a modification time, a long name and both fields in its
\* trailer (an offset above 127) was scanned.
C29_Witness ==
    /\ pc = "written"
    /\ arg.mod = 1
    /\ arg.file = 1
    /\ arg.tail = BR_CONTENT_LEN + BR_CONTENT_OFF
    /\ ret.scan.ok
    /\ ret.scan.pos = <<4, ret.tail_at>>
    /\ ret.tail_at > 127

====
